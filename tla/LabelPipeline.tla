----------------------------- MODULE LabelPipeline -----------------------------
(***************************************************************************)
(* scripts/collect_news.py and scripts/label_articles_llm.py: the collector *)
(* rewrites the file of articles, the labeller appends one line per article *)
(* to the file of labels and skips, when it runs again, the articles that   *)
(* have a label there.  An operator runs the two in turn.  Either may be    *)
(* stopped at any point, in the middle of a line too: a line that was not   *)
(* ended is glued to the next one appended, and the result does not parse;  *)
(* cut inside a character of several bytes, the file cannot be read at all. *)
(***************************************************************************)
EXTENDS Integers, Sequences, FiniteSets

CONSTANTS
    Articles,      \* by URL, which is what article_id hashes
    Sites,         \* --sites, a sequence of sets: the articles each may list
    PerSite,       \* collect_news.py --limit
    Answers,       \* what the model may answer: [ticker, magnitude]
    Roster,        \* VN30_ROSTER and "VN30-INDEX"
    MaxMagnitude,  \* 5
    MaxCost,       \* the most that cost_usd of an answered call is, in units
    Budget,        \* --max-cost-usd, in the same units
    Limits,        \* values of --limit; 0 is also its absence: both are false
    Collections,   \* bound on the runs of the collector
    Labellings,    \* bound on the runs of the labeller
    Null,          \* no ticker (null or empty); no line
    Missing,       \* no file
    Torn,          \* a line of articles without its end
    Junk,          \* a line of labels that does not parse
    Garbled        \* one that does not even decode

ASSUME LabelAssumption ==
    /\ MaxCost \in Nat \ {0}
    /\ Budget \in Nat
    /\ Limits \subseteq Nat
    /\ MaxMagnitude \in Nat \ {0}
    /\ PerSite \in Nat
    /\ Collections \in Nat
    /\ Labellings \in Nat
    /\ Sites \in Seq(SUBSET Articles)
    /\ Torn \notin Articles
    /\ \A a \in Answers : a.magnitude \in Int

\* The label schema: a line of the file of labels.
Lines == [article : Articles, error : BOOLEAN,
          ticker : Roster \cup {Null}, magnitude : 1..MaxMagnitude]

ASSUME LinesAssumption ==
    /\ Null # Junk /\ Null # Garbled /\ Junk # Garbled
    /\ Null \notin Lines /\ Junk \notin Lines /\ Garbled \notin Lines

VARIABLES
    collected,  \* how often the collector was started
    queue,      \* how many sites it has visited; -1 when it does not run
    gathered,   \* all_articles
    input,      \* the file of articles: a sequence, Torn at most last, or Missing
    labels,     \* the ended lines of the file of labels: records, Junk or Garbled
    tail,       \* what follows the last end of line: Null or a line, not ended
    calls,      \* how often the API was called about each article
    stopped,    \* how many runs of the labeller were killed or raised on an answer
    run,        \* the labeller's local variables
    exit        \* how it ended, if it ran last: "none", "0", "1", "killed"

collectorVars == <<collected, queue, gathered>>
fileVars == <<labels, tail>>
callVars == <<calls, stopped>>
vars == <<collectorVars, input, fileVars, callVars, run, exit>>

NoRun == [on |-> FALSE, started |-> 0, fresh |-> 0, resume |-> TRUE,
          limit |-> 0, dry |-> FALSE, done |-> {}, pos |-> 1, count |-> 0,
          cost |-> 0, torn |-> FALSE]

Init ==
    /\ collected = 0
    /\ queue = -1
    /\ gathered = <<>>
    /\ input = Missing
    /\ labels = <<>>
    /\ tail = Null
    /\ calls = [a \in Articles |-> 0]
    /\ stopped = 0
    /\ run = NoRun
    /\ exit = "none"

Idle == queue = -1 /\ ~run.on

-------------------------------------------------------------------------------
(* collect_news.py                                                          *)

StartCollector ==
    /\ Idle
    /\ collected < Collections
    /\ collected' = collected + 1
    /\ queue' = 0
    /\ gathered' = <<>>
    /\ run' = [NoRun EXCEPT !.started = run.started, !.fresh = run.fresh]
    /\ exit' = "none"
    /\ UNCHANGED <<input, fileVars, callVars>>

\* What fetch_from_site may return: nothing if the discovery failed, else the
\* articles whose details came, by the URL the details give: it may repeat.
Fetched(site) == UNION {[1..n -> Sites[site]] : n \in 0..PerSite}

FetchFromSite ==
    /\ queue \in 0..(Len(Sites) - 1)
    /\ \E articles \in Fetched(queue + 1) : gathered' = gathered \o articles
    /\ queue' = queue + 1
    /\ UNCHANGED <<collected, input, fileVars, callVars, run, exit>>

\* open(output, "w") and one line per article; or --dry-run.
WriteArticles ==
    /\ queue = Len(Sites)
    /\ input' \in {gathered, input}
    /\ queue' = -1
    /\ gathered' = <<>>
    /\ UNCHANGED <<collected, fileVars, callVars, run, exit>>

\* Stopped while it fetches, or while it writes: some lines and part of one.
KillCollector ==
    /\ queue # -1
    /\ \/ input' = input
       \/ /\ queue = Len(Sites)
          /\ \E n \in 0..Len(gathered), rest \in {<<>>, <<Torn>>} :
                /\ n = Len(gathered) => rest = <<>>
                /\ input' = SubSeq(gathered, 1, n) \o rest
    /\ queue' = -1
    /\ gathered' = <<>>
    /\ UNCHANGED <<collected, fileVars, callVars, run, exit>>

-------------------------------------------------------------------------------
(* label_articles_llm.py                                                    *)

Clamp(low, high, n) == IF n < low THEN low ELSE IF n > high THEN high ELSE n

\* Mutant: the magnitude is bounded from one side.
ValidateLabelHalf(answer) ==
    [ticker |-> IF answer.ticker \in Roster THEN answer.ticker ELSE Null,
     magnitude |-> IF answer.magnitude < 1 THEN 1 ELSE answer.magnitude]

ValidateLabel(answer) ==
    [ticker |-> IF answer.ticker \in Roster THEN answer.ticker ELSE Null,
     magnitude |-> Clamp(1, MaxMagnitude, answer.magnitude)]

Label(article, error, fields) ==
    [article |-> article, error |-> error,
     ticker |-> fields.ticker, magnitude |-> fields.magnitude]

ErrorLabel(article) == Label(article, TRUE, [ticker |-> Null, magnitude |-> 1])

\* _label_one: an error label, free of cost, if the call failed or the answer is
\* not JSON; else the validated answer and what it cost.
LabelOne(article) ==
    {[label |-> ErrorLabel(article), cost |-> 0]}
    \cup UNION {{[label |-> Label(article, FALSE, ValidateLabel(answer)), cost |-> c] :
                    c \in 1..MaxCost} : answer \in Answers}

\* The lines of the file of labels that parse.
Readable == {labels[i] : i \in DOMAIN labels} \ {Junk, Garbled}

\* The file is UTF-8 from its first byte to its last.
Decodes == tail # Garbled /\ \A i \in DOMAIN labels : labels[i] # Garbled

\* Mutant: an error label does not count as done, so that it is tried again.
DoneIdsOfSuccesses ==
    {line.article : line \in {l \in Readable : ~l.error}}

\* _load_done_ids: every line that parses, the last one too if it only lacks its end.
LoadDoneIds ==
    {line.article : line \in Readable \cup ({tail} \ {Null, Junk, Garbled})}

\* No input file, or no API key and no --dry-run: return 1. Or the iteration over the
\* labels raises: it decodes them outside the suppress() around json.loads.
RefuseLabelling(resume, dry) ==
    /\ input = Missing \/ ~dry \/ (resume /\ ~Decodes)
    /\ run' = [run EXCEPT !.started = @ + 1]
    /\ exit' = "1"

\* The file is opened for appending, with --no-resume too.
OpenFiles(limit, resume, dry) ==
    /\ input # Missing
    /\ resume => Decodes
    /\ run' = [NoRun EXCEPT !.on = TRUE,
                            !.started = run.started + 1,
                            !.fresh = run.fresh + (IF resume \/ dry THEN 0 ELSE 1),
                            !.resume = resume,
                            !.limit = limit,
                            !.dry = dry,
                            !.done = IF resume THEN LoadDoneIds ELSE {},
                            !.torn = tail # Null]
    /\ exit' = "none"

StartLabelling(limit, resume, dry) ==
    /\ Idle
    /\ run.started < Labellings
    /\ RefuseLabelling(resume, dry) \/ OpenFiles(limit, resume, dry)
    /\ UNCHANGED <<collectorVars, input, fileVars, callVars>>

AtEnd == run.pos > Len(input)

LimitReached == run.limit # 0 /\ run.count >= run.limit

Exit(code) ==
    /\ run' = [run EXCEPT !.on = FALSE, !.done = {}, !.cost = 0]
    /\ exit' = code

\* The loop is over: all lines were read, or --limit articles were labelled.
Finish ==
    /\ run.on
    /\ AtEnd \/ LimitReached
    /\ Exit("0")
    /\ UNCHANGED <<collectorVars, input, fileVars, callVars>>

InLoop == run.on /\ ~AtEnd /\ ~LimitReached

\* json.loads of a line the collector did not end raises; if it was cut inside a
\* character, so does reading it, before --limit is looked at.
ReadTornLine ==
    /\ run.on
    /\ ~AtEnd
    /\ input[run.pos] = Torn
    /\ Exit("1")
    /\ UNCHANGED <<collectorVars, input, fileVars, callVars>>

AtArticle == InLoop /\ input[run.pos] # Torn

\* Mutant: break where the code has continue.
SkipTheRest ==
    /\ AtArticle
    /\ input[run.pos] \in run.done
    /\ Exit("0")
    /\ UNCHANGED <<collectorVars, input, fileVars, callVars>>

SkipDone ==
    /\ AtArticle
    /\ input[run.pos] \in run.done
    /\ run' = [run EXCEPT !.pos = @ + 1]
    /\ UNCHANGED <<collectorVars, input, fileVars, callVars, exit>>

ToLabel == AtArticle /\ input[run.pos] \notin run.done

PrintPrompt ==
    /\ ToLabel
    /\ run.dry
    /\ run' = [run EXCEPT !.pos = @ + 1, !.count = @ + 1]
    /\ UNCHANGED <<collectorVars, input, fileVars, callVars, exit>>

\* Mutant: > for >=.
BudgetSpentLate == run.cost > Budget

BudgetSpent == run.cost >= Budget

StopAtBudget ==
    /\ ToLabel
    /\ ~run.dry
    /\ BudgetSpent
    /\ Exit("1")
    /\ UNCHANGED <<collectorVars, input, fileVars, callVars>>

MayCall == ToLabel /\ ~run.dry /\ ~BudgetSpent

\* If the file ends in an unfinished line, that and the new one are one line.
Glued(line) == IF tail = Null THEN line ELSE IF tail = Garbled THEN Garbled ELSE Junk

Write(line) ==
    /\ labels' = Append(labels, Glued(line))
    /\ tail' = Null

\* A line that was written in part, or whole without its end.
Cut(line) == {Glued(line), Glued(Junk), Garbled}

Call(article) == calls' = [calls EXCEPT ![article] = @ + 1]

LabelArticle ==
    /\ MayCall
    /\ Call(input[run.pos])
    /\ \E result \in LabelOne(input[run.pos]) :
          /\ Write(result.label)
          /\ run' = [run EXCEPT !.pos = @ + 1,
                                !.count = @ + 1,
                                !.cost = @ + result.cost]
    /\ UNCHANGED <<collectorVars, input, stopped, exit>>

\* The answer is JSON but no object, or one the validation raises on.
AnswerRaises ==
    /\ MayCall
    /\ Call(input[run.pos])
    /\ stopped' = stopped + 1
    /\ Exit("1")
    /\ UNCHANGED <<collectorVars, input, fileVars>>

\* Stopped (a signal, a full disk, the power), between two articles or from the call on
\* to the end of its line.
KillLabelling ==
    /\ run.on
    /\ Exit("killed")
    /\ stopped' = stopped + 1
    /\ \/ UNCHANGED <<tail, calls>>
       \/ /\ MayCall
          /\ Call(input[run.pos])
          /\ \E result \in LabelOne(input[run.pos]) :
                tail' \in {tail} \cup Cut(result.label)
    /\ UNCHANGED <<collectorVars, input, labels>>

-------------------------------------------------------------------------------

Collect == StartCollector \/ FetchFromSite \/ WriteArticles \/ KillCollector

Loop == \/ Finish
        \/ ReadTornLine
        \/ SkipDone
        \/ PrintPrompt
        \/ StopAtBudget
        \/ LabelArticle
        \/ AnswerRaises

Next == \/ Collect
        \/ \E limit \in Limits, resume, dry \in BOOLEAN :
              StartLabelling(limit, resume, dry)
        \/ Loop
        \/ KillLabelling

\* The loop goes on by itself; nobody is obliged to start a run or to stop it.
Spec == Init /\ [][Next]_vars /\ WF_vars(Loop)

-------------------------------------------------------------------------------
(* Properties.                                                              *)

Run == [on : BOOLEAN, started : 0..Labellings, fresh : 0..Labellings,
        resume : BOOLEAN, limit : Limits \cup {0}, dry : BOOLEAN,
        done : SUBSET Articles, pos : Nat \ {0}, count : Nat,
        cost : Nat, torn : BOOLEAN]

TypeOK ==
    /\ collected \in 0..Collections
    /\ queue \in -1..Len(Sites)
    /\ gathered \in Seq(Articles)
    /\ input \in Seq(Articles \cup {Torn}) \cup {Missing}
    /\ labels \in Seq(Lines \cup {Junk, Garbled})
    /\ tail \in Lines \cup {Null, Junk, Garbled}
    /\ calls \in [Articles -> Nat]
    /\ stopped \in Nat
    /\ run \in Run
    /\ exit \in {"none", "0", "1", "killed"}

\* Every line of the file that parses obeys the label schema (clamped fields of
\* _validate_label), whatever the model answered and however runs were stopped:
\* a cut line never parses as another label.
LinesObeySchema == \A line \in Readable : line \in Lines

Labelled == {line.article : line \in Readable}

InInput(article) == \E i \in DOMAIN input : input[i] = article

Unlabelled == {a \in Articles : InInput(a) /\ a \notin Labelled}

\* Exit status 0 of a real run means that it labelled as many articles as --limit asked
\* for, so that repeating it gets to the end, or that each article of the input has a
\* label in the file, but for the line this run was glued to: what a cut line costs is
\* at most that line's article and the next one, and nothing once a file without a
\* cut line is labelled again.
ZeroMeansLabelled ==
    exit = "0" /\ ~run.dry =>
        \/ run.limit # 0 /\ run.count = run.limit
        \/ Unlabelled = {}
        \/ run.torn /\ \A a, b, c \in Unlabelled : a = b \/ a = c \/ b = c

\* What a run records as spent exceeds --max-cost-usd by less than one call.
BudgetKept == run.cost < Budget + MaxCost

\* Running the labeller again calls the API about no article again, whatever the calls
\* before came to: an article is called about as often as one input may repeat it, times
\* the runs told not to resume. Only a run that was stopped adds to that, at most the call
\* whose answer it lost and the one whose line is glued to what it left.
CallsAreBounded ==
    \A a \in Articles :
        calls[a] <= PerSite * Cardinality({i \in DOMAIN Sites : a \in Sites[i]})
                            * (1 + run.fresh)
                    + 2 * stopped

\* "Interrupt-safe (f_out.flush() every line)" (docs/phase-b-label-spec.md:259): the run
\* after an interrupted one can read the labels it resumes from.
InterruptSafe == exit = "killed" => Decodes

\* A labelling that was started ends.
LabellingEnds == run.on ~> ~run.on
===============================================================================
