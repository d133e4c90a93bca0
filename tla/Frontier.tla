------------------------------- MODULE Frontier -------------------------------
(***************************************************************************)
(* application/services/frontier_service.py with                           *)
(* domain/services/frontier_optimizer.py.  Weights are integers, Full for   *)
(* 100 %, on a grid of Step; what SLSQP answers is any allocation that      *)
(* obeys the constraints it was given, or a failure.                        *)
(***************************************************************************)
EXTENDS Integers, Sequences, FiniteSets, FiniteSetsExt

CONSTANTS Full,  \* the weights of a portfolio add up to this
          Step   \* the weights the optimizer answers are multiples of this

ASSUME FrontierAssumption == Full \in Nat \ {0} /\ Step \in Nat \ {0}

Sum(w) == MapThenSumSet(LAMBDA t : w[t], DOMAIN w)

\* The domain of SLSQP: sum(w) = 1 and the bounds [0, upper].
Feasible(tickers, upper) ==
    {w \in [tickers -> {Step * i : i \in 0..(Full \div Step)}] :
        Sum(w) = Full /\ \A t \in tickers : w[t] <= upper}

\* w @ mu: the expected return, in units of 1 / Full.
Return(w, mu) == Sum([t \in DOMAIN w |-> w[t] * mu[t]])

Lesser(m, n) == IF m < n THEN m ELSE n

\* Mutant: argsort without the reversal.
RankingUp(tickers, mu) ==
    CHOOSE order \in [1..Cardinality(tickers) -> tickers] :
        \A i, j \in DOMAIN order :
            i < j => order[i] # order[j] /\ mu[order[i]] <= mu[order[j]]

\* np.argsort(mu)[::-1]; how it orders equal means makes no difference below.
Ranking(tickers, mu) ==
    CHOOSE order \in [1..Cardinality(tickers) -> tickers] :
        \A i, j \in DOMAIN order :
            i < j => order[i] # order[j] /\ mu[order[i]] >= mu[order[j]]

\* The right end of the sweep: the upper bound to the best ticker, then to the next
\* one, until nothing remains.
MaxReturnAllocation(tickers, mu, upper) ==
    LET order == Ranking(tickers, mu)
        remaining[i \in 0..Cardinality(tickers)] ==
            IF i = 0 THEN Full
            ELSE remaining[i - 1] - Lesser(upper, remaining[i - 1])
        rank(t) == CHOOSE i \in DOMAIN order : order[i] = t
    IN  [t \in tickers |-> remaining[rank(t) - 1] - remaining[rank(t)]]

ValidRequest(tickers, upper, points) ==
    /\ Cardinality(tickers) >= 2
    /\ upper \in 1..Full
    /\ points >= 2

\* The curves a request may be answered with: one point per target return, from the
\* return of the minimum-variance portfolio to that of MaxReturnAllocation, but for
\* the targets at which SLSQP fails. There is none if the bounds are infeasible.
Curves(tickers, mu, upper, points) ==
    LET best == Return(MaxReturnAllocation(tickers, mu, upper), mu)
        allocations == {w \in Feasible(tickers, upper) : Return(w, mu) <= best}
    IN  IF ValidRequest(tickers, upper, points)
        THEN UNION {{c \in [1..n -> allocations] :
                        \A i \in 1..(n - 1) :
                            Return(c[i], mu) <= Return(c[i + 1], mu)} :
                    n \in 1..points}
        ELSE {}

-------------------------------------------------------------------------------

\* No allocation within the bounds has a higher expected return than the right end
\* of the sweep, which is one of them: the curve is not cut short, and no target is
\* out of reach (but where the bounds admit no portfolio at all).
SweepReachesBest(tickers, means, bounds) ==
    \A upper \in bounds : \A mu \in [tickers -> means] :
        Feasible(tickers, upper) # {} =>
            LET end == MaxReturnAllocation(tickers, mu, upper)
            IN  /\ end \in Feasible(tickers, upper)
                /\ \A w \in Feasible(tickers, upper) : Return(w, mu) <= Return(end, mu)
===============================================================================
