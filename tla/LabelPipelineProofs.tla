-------------------------- MODULE LabelPipelineProofs --------------------------
(***************************************************************************)
(* Theorems about LabelPipeline, for every number of articles, sites, runs  *)
(* and answers of the model, every budget and every --limit.                *)
(***************************************************************************)
EXTENDS LabelPipeline, SequenceTheorems, FiniteSetTheorems, TLAPS

\* What the loop has left behind: the lines it has passed and what it began with.
Passed == {input[p] : p \in 1..(run.pos - 1)} \cup run.done

\* All of it is labelled, but for the article of the unfinished line the run found and
\* the one whose line was glued to it.
Covered ==
    \/ ~run.torn /\ tail = Null /\ Passed \subseteq Labelled
    \/ run.torn /\ tail # Null /\ \E x : Passed \subseteq Labelled \cup {x}
    \/ run.torn /\ tail = Null /\ \E x, y : Passed \subseteq Labelled \cup {x, y}

\* The labeller works on one file of articles, which the collector leaves alone, and
\* its limits hold.
RunInv ==
    /\ (run.on \/ exit = "0") => queue = -1
    /\ run.on => (input # Missing /\ exit = "none")
    /\ run.fresh <= run.started
    /\ run.limit # 0 => run.count <= run.limit
    /\ (run.on /\ ~run.dry) => Covered

\* The inductive invariant.
LabelInv == TypeOK /\ RunInv /\ BudgetKept /\ ZeroMeansLabelled

-------------------------------------------------------------------------------
(* The operators.                                                           *)

\* Whatever the model answers, the label obeys the schema, and it costs what a call may.
LEMMA LabelOneTypes ==
    ASSUME NEW a \in Articles, NEW result \in LabelOne(a)
    PROVE  /\ result.label \in Lines
           /\ result.label.article = a
           /\ result.cost \in 0..MaxCost
<1>1. CASE result = [label |-> ErrorLabel(a), cost |-> 0]
  <2>1. ErrorLabel(a) \in Lines /\ ErrorLabel(a).article = a
    BY LabelAssumption DEF ErrorLabel, Label, Lines
  <2> QED BY <1>1, <2>1, LabelAssumption
<1>2. ASSUME NEW answer \in Answers, NEW c \in 1..MaxCost,
             result = [label |-> Label(a, FALSE, ValidateLabel(answer)), cost |-> c]
      PROVE  /\ result.label \in Lines
             /\ result.label.article = a
             /\ result.cost \in 0..MaxCost
  <2>1. Clamp(1, MaxMagnitude, answer.magnitude) \in 1..MaxMagnitude
    BY LabelAssumption DEF Clamp
  <2>2. /\ ValidateLabel(answer).magnitude \in 1..MaxMagnitude
        /\ ValidateLabel(answer).ticker \in Roster \cup {Null}
    BY <2>1 DEF ValidateLabel
  <2>3. /\ Label(a, FALSE, ValidateLabel(answer)) \in Lines
        /\ Label(a, FALSE, ValidateLabel(answer)).article = a
    BY <2>2 DEF Label, Lines
  <2> DEFINE line == Label(a, FALSE, ValidateLabel(answer))
  <2>4. line \in Lines /\ line.article = a /\ result = [label |-> line, cost |-> c]
    BY <1>2, <2>3
  <2> HIDE DEF line
  <2>5. result.label = line /\ result.cost = c
    BY <2>4
  <2> QED BY <2>4, <2>5, LabelAssumption
<1>3. \/ result = [label |-> ErrorLabel(a), cost |-> 0]
      \/ \E answer \in Answers, c \in 1..MaxCost :
             result = [label |-> Label(a, FALSE, ValidateLabel(answer)), cost |-> c]
  BY DEF LabelOne
<1> QED BY <1>1, <1>2, <1>3, Zenon

\* A line that is appended to an ended file is readable; glued to another it is not.
LEMMA WriteTypes ==
    ASSUME TypeOK, NEW line \in Lines, Write(line)
    PROVE  /\ labels' \in Seq(Lines \cup {Junk, Garbled})
           /\ tail' = Null
           /\ tail = Null => Labelled' = Labelled \cup {line.article}
           /\ Labelled \subseteq Labelled'
<1> DEFINE new == Glued(line)
           S == Lines \cup {Junk, Garbled}
<1>1. labels' = Append(labels, new) /\ tail' = Null
  BY DEF Write
<1>2. labels \in Seq(S) /\ new \in S
  BY DEF TypeOK, Glued
<1>3. /\ labels' \in Seq(S)
      /\ Len(labels') = Len(labels) + 1
      /\ \A i \in 1..Len(labels) : labels'[i] = labels[i]
      /\ labels'[Len(labels) + 1] = new
  BY <1>1, <1>2, AppendProperties
<1>4. Readable' = Readable \cup ({new} \ {Junk, Garbled})
  <2>1. DOMAIN labels = 1..Len(labels) /\ DOMAIN labels' = 1..(Len(labels) + 1)
    BY <1>2, <1>3
  <2>2. Len(labels) \in Nat
    BY <1>2
  <2>3. DOMAIN labels' = DOMAIN labels \cup {Len(labels) + 1}
    BY <2>1, <2>2
  <2> HIDE DEF new
  <2> QED BY <1>3, <2>1, <2>3 DEF Readable
<1>5. tail = Null => Readable' = Readable \cup {line}
  BY <1>4, LinesAssumption DEF Glued
<1>6. Readable \subseteq Readable'
  BY <1>4
<1> QED BY <1>1, <1>3, <1>5, <1>6 DEF Labelled

\* What a run takes as done has a label, or is what the unfinished line is about.
LEMMA DoneTypes ==
    ASSUME TypeOK
    PROVE  /\ LoadDoneIds \subseteq Articles
           /\ tail = Null => LoadDoneIds = Labelled
           /\ \E x : LoadDoneIds \subseteq Labelled \cup {x}
<1>1. Readable \subseteq Lines
  BY DEF TypeOK, Readable
<1>2. {tail} \ {Null, Junk, Garbled} \subseteq Lines
  BY DEF TypeOK
<1>3. LoadDoneIds \subseteq Articles
  BY <1>1, <1>2 DEF LoadDoneIds, Lines
<1>4. tail = Null => LoadDoneIds = Labelled
  BY DEF LoadDoneIds, Labelled
<1>5. LoadDoneIds \subseteq Labelled \cup {tail.article}
  BY DEF LoadDoneIds, Labelled
<1> QED BY <1>3, <1>4, <1>5

\* A call is counted at its article.
LEMMA CallTypes ==
    ASSUME TypeOK, NEW a, Call(a)
    PROVE  /\ calls' \in [Articles -> Nat]
           /\ \A b \in Articles : calls'[b] = calls[b] + (IF b = a THEN 1 ELSE 0)
<1> DEFINE more == calls[a] + 1
<1>1. calls \in [Articles -> Nat] /\ calls' = [calls EXCEPT ![a] = more]
  BY DEF TypeOK, Call
<1>2. ASSUME NEW b \in Articles
      PROVE  calls'[b] \in Nat /\ calls'[b] = calls[b] + (IF b = a THEN 1 ELSE 0)
  BY <1>1
<1> HIDE DEF more
<1>3. calls' = [b \in Articles |-> calls'[b]]
  BY <1>1
<1> QED BY <1>2, <1>3

-------------------------------------------------------------------------------
(* The steps.                                                               *)

\* The inductive invariant holds initially.
LEMMA LabelInit == Init => LabelInv
<1> SUFFICES ASSUME Init PROVE LabelInv
  OBVIOUS
<1>1. NoRun \in Run
  BY LabelAssumption DEF NoRun, Run
<1>2. TypeOK
  <2>1. Len(Sites) \in Nat
    BY LabelAssumption
  <2> QED BY <1>1, <2>1, LabelAssumption DEF Init, TypeOK
<1>3. RunInv /\ BudgetKept /\ ZeroMeansLabelled
  BY LabelAssumption DEF Init, RunInv, BudgetKept, ZeroMeansLabelled, NoRun
<1> QED BY <1>2, <1>3 DEF LabelInv

\* The collector works while the labeller does not, and forgets how that ended.
LEMMA CollectorStep == ASSUME LabelInv, Collect PROVE LabelInv'
<1> DEFINE S == Articles \cup {Torn}
<1>1. Len(Sites) \in Nat /\ \A i \in 1..Len(Sites) : Sites[i] \subseteq Articles
  BY LabelAssumption
<1>2. gathered \in Seq(Articles) /\ input \in Seq(S) \cup {Missing} /\ queue \in -1..Len(Sites)
  BY DEF LabelInv, TypeOK
<1>3. Seq(Articles) \subseteq Seq(S)
  OBVIOUS
<1>4. CASE StartCollector
  <2>1. ~run.on /\ run \in Run
    BY <1>4 DEF StartCollector, Idle, LabelInv, TypeOK
  <2>2. run' = [NoRun EXCEPT !.started = run.started, !.fresh = run.fresh]
    BY <1>4 DEF StartCollector
  <2>a. run' = [on |-> FALSE, started |-> run.started, fresh |-> run.fresh,
                resume |-> TRUE, limit |-> 0, dry |-> FALSE, done |-> {}, pos |-> 1,
                count |-> 0, cost |-> 0, torn |-> FALSE]
    BY <2>2 DEF NoRun
  <2>b. run.started \in 0..Labellings /\ run.fresh \in 0..Labellings
    BY <2>1 DEF Run
  <2>c. run' \in Run
    <3>1. 0 \in Limits \cup {0} /\ 1 \in Nat \ {0} /\ 0 \in Nat /\ {} \in SUBSET Articles
      OBVIOUS
    <3>2. TRUE \in BOOLEAN /\ FALSE \in BOOLEAN
      OBVIOUS
    <3> QED BY <2>a, <2>b, <3>1, <3>2, Zenon DEF Run
  <2>3. /\ run' \in Run /\ ~run'.on /\ run'.limit = 0 /\ run'.cost = 0
        /\ run'.fresh = run.fresh /\ run'.started = run.started
    BY <2>a, <2>c
  <2>4. collected' \in 0..Collections
    BY <1>4, LabelAssumption DEF StartCollector, LabelInv, TypeOK
  <2>5. TypeOK'
    BY <1>1, <1>2, <1>4, <2>3, <2>4 DEF StartCollector, LabelInv, TypeOK, fileVars, callVars
  <2>6. exit' = "none"
    BY <1>4 DEF StartCollector
  <2>7. RunInv'
    BY <2>3, <2>6 DEF LabelInv, RunInv
  <2>8. BudgetKept'
    BY <2>3, LabelAssumption DEF BudgetKept
  <2>9. ZeroMeansLabelled'
    BY <2>6 DEF ZeroMeansLabelled
  <2> QED BY <2>5, <2>7, <2>8, <2>9 DEF LabelInv
<1>5. CASE FetchFromSite \/ WriteArticles \/ KillCollector
  <2>1. queue # -1 /\ UNCHANGED <<collected, fileVars, callVars, run, exit>>
    BY <1>1, <1>5 DEF FetchFromSite, WriteArticles, KillCollector
  <2>2. gathered' \in Seq(Articles) /\ input' \in Seq(S) \cup {Missing} /\ queue' \in -1..Len(Sites)
    <3>1. CASE FetchFromSite
      <4>1. PICK articles \in Fetched(queue + 1) : gathered' = gathered \o articles
        BY <3>1 DEF FetchFromSite
      <4>2. articles \in Seq(Articles)
        <5>1. PICK n \in 0..PerSite : articles \in [1..n -> Sites[queue + 1]]
          BY <4>1 DEF Fetched
        <5>2. n \in Nat /\ Sites[queue + 1] \subseteq Articles
          BY <1>1, <1>2, <3>1, <5>1, LabelAssumption DEF FetchFromSite
        <5> QED BY <5>1, <5>2, IsASeq
      <4>3. gathered' \in Seq(Articles)
        BY <1>2, <4>1, <4>2, ConcatProperties
      <4> QED BY <1>1, <1>2, <3>1, <4>3 DEF FetchFromSite
    <3>2. CASE WriteArticles
      BY <1>1, <1>2, <1>3, <3>2 DEF WriteArticles
    <3>3. CASE KillCollector
      <4>1. input' \in Seq(S) \cup {Missing}
        <5>1. CASE input' = input
          BY <1>2, <5>1
        <5>2. ASSUME NEW n \in 0..Len(gathered), NEW rest \in {<<>>, <<Torn>>},
                     input' = SubSeq(gathered, 1, n) \o rest
              PROVE  input' \in Seq(S)
          <6>1. SubSeq(gathered, 1, n) \in Seq(S)
            BY <1>2, <1>3, SubSeqProperties
          <6>2. rest \in Seq(S)
            <7>1. <<>> \in Seq(S) /\ <<Torn>> \in Seq(S)
              OBVIOUS
            <7> QED BY <7>1
          <6> QED BY <5>2, <6>1, <6>2, ConcatProperties
        <5> QED BY <3>3, <5>1, <5>2 DEF KillCollector
      <4> QED BY <1>1, <3>3, <4>1 DEF KillCollector
    <3> QED BY <1>5, <3>1, <3>2, <3>3
  <2>3. ~run.on /\ exit # "0"
    BY <2>1 DEF LabelInv, RunInv
  <2>4. TypeOK'
    BY <2>1, <2>2 DEF LabelInv, TypeOK, fileVars, callVars
  <2>5. RunInv' /\ BudgetKept' /\ ZeroMeansLabelled'
    BY <2>1, <2>3 DEF LabelInv, RunInv, BudgetKept, ZeroMeansLabelled
  <2> QED BY <2>4, <2>5 DEF LabelInv
<1> QED BY <1>4, <1>5 DEF Collect

\* A run begins with what the file of labels has, or is refused.
LEMMA StartStep ==
    ASSUME LabelInv, NEW limit \in Limits, NEW resume \in BOOLEAN, NEW dry \in BOOLEAN,
           StartLabelling(limit, resume, dry)
    PROVE  LabelInv'
<1>1. /\ ~run.on /\ queue = -1 /\ run \in Run
      /\ run.started \in 0..(Labellings - 1) /\ run.fresh \in 0..run.started
      /\ UNCHANGED <<collectorVars, input, fileVars, callVars>>
  BY LabelAssumption DEF StartLabelling, Idle, LabelInv, TypeOK, Run, RunInv
<1>2. CASE RefuseLabelling(resume, dry)
  <2>1. run' = [run EXCEPT !.started = run.started + 1] /\ exit' = "1"
    BY <1>2 DEF RefuseLabelling
  <2> DEFINE started == run.started + 1
  <2>a. started \in 0..Labellings
    BY <1>1, LabelAssumption
  <2> HIDE DEF started
  <2>b. run' = [run EXCEPT !.started = started]
    BY <2>1 DEF started
  <2>2. run' \in Run /\ ~run'.on
    BY <1>1, <2>a, <2>b DEF Run
  <2>3. /\ run'.fresh = run.fresh /\ run'.limit = run.limit /\ run'.count = run.count
        /\ run'.cost = run.cost /\ run'.started = run.started + 1
    BY <1>1, <2>1 DEF Run
  <2>4. TypeOK'
    BY <1>1, <2>1, <2>2 DEF LabelInv, TypeOK, collectorVars, fileVars, callVars
  <2>5. run.started \in Nat /\ run.fresh \in Nat
    BY <1>1, LabelAssumption
  <2>6. RunInv'
    BY <1>1, <2>1, <2>2, <2>3, <2>5 DEF LabelInv, RunInv
  <2>7. BudgetKept'
    BY <2>3 DEF LabelInv, BudgetKept
  <2>8. ZeroMeansLabelled'
    BY <2>1 DEF ZeroMeansLabelled
  <2> QED BY <2>4, <2>6, <2>7, <2>8 DEF LabelInv
<1>3. CASE OpenFiles(limit, resume, dry)
  <2> DEFINE fresh == run.fresh + (IF resume \/ dry THEN 0 ELSE 1)
             done == IF resume THEN LoadDoneIds ELSE {}
             started == run.started + 1
             torn == tail # Null
  <2>1. /\ run' = [NoRun EXCEPT !.on = TRUE, !.started = run.started + 1,
                                !.fresh = fresh, !.resume = resume, !.limit = limit,
                                !.dry = dry, !.done = done, !.torn = tail # Null]
        /\ exit' = "none" /\ input # Missing
    BY <1>3 DEF OpenFiles
  <2>2. done \subseteq Articles
    BY DoneTypes DEF LabelInv
  <2>3. run.started \in Nat /\ run.fresh \in Nat
    BY <1>1, LabelAssumption
  <2>4. fresh \in 0..(run.started + 1) /\ run.started + 1 \in 0..Labellings
    BY <1>1, <2>3, LabelAssumption
  <2> HIDE DEF fresh
  <2>5. fresh \in 0..Labellings
    BY <2>3, <2>4, LabelAssumption
  <2> HIDE DEF done, started, torn
  <2>6. /\ run'.on /\ run'.limit = limit /\ run'.dry = dry /\ run'.done = done
        /\ run'.torn = (tail # Null) /\ run'.pos = 1 /\ run'.count = 0 /\ run'.cost = 0
        /\ run'.fresh = fresh /\ run'.started = run.started + 1
    BY <2>1 DEF NoRun
  <2>7. run' \in Run
    <3>1. torn \in BOOLEAN /\ started \in 0..Labellings
      BY <2>4 DEF started, torn
    <3>2. run' = [NoRun EXCEPT !.on = TRUE, !.started = started,
                               !.fresh = fresh, !.resume = resume, !.limit = limit,
                               !.dry = dry, !.done = done, !.torn = torn]
      BY <2>1 DEF started, torn
    <3>3. run' = [on |-> TRUE, started |-> started, fresh |-> fresh, resume |-> resume,
                  limit |-> limit, dry |-> dry, done |-> done, pos |-> 1, count |-> 0,
                  cost |-> 0, torn |-> torn]
      BY <3>2 DEF NoRun
    <3>4. limit \in Limits \cup {0} /\ 1 \in Nat \ {0} /\ 0 \in Nat
      OBVIOUS
    <3> QED BY <2>2, <2>5, <3>1, <3>3, <3>4, Zenon DEF Run
  <2>8. TypeOK'
    BY <1>1, <2>1, <2>7 DEF LabelInv, TypeOK, collectorVars, fileVars, callVars
  <2>9. Covered'
    <3>1. Passed' = done
      BY <2>6 DEF Passed
    <3>2. Labelled' = Labelled /\ tail' = tail
      BY <1>1 DEF fileVars, Labelled, Readable
    <3>3. /\ tail = Null => done \subseteq Labelled
          /\ \E x : done \subseteq Labelled \cup {x}
      BY DoneTypes DEF LabelInv, done
    <3> QED BY <2>6, <3>1, <3>2, <3>3 DEF Covered
  <2>10. limit \in Nat
    BY LabelAssumption
  <2>11. RunInv'
    <3>1. queue' = -1 /\ input' # Missing
      BY <1>1, <2>1 DEF collectorVars
    <3>2. run'.fresh <= run'.started
      BY <2>3, <2>4, <2>6
    <3>3. run'.limit # 0 => run'.count <= run'.limit
      BY <2>6, <2>10
    <3> QED BY <2>1, <2>9, <3>1, <3>2, <3>3 DEF RunInv
  <2>12. BudgetKept'
    BY <2>6, LabelAssumption DEF BudgetKept
  <2>13. ZeroMeansLabelled'
    BY <2>1 DEF ZeroMeansLabelled
  <2> QED BY <2>8, <2>11, <2>12, <2>13 DEF LabelInv
<1> QED BY <1>2, <1>3 DEF StartLabelling

\* Ending a run keeps the files of articles and of ended labels and what the run counted.
LEMMA ExitTypes ==
    ASSUME LabelInv, run.on, NEW code \in {"0", "1", "killed"}, Exit(code),
           UNCHANGED <<collectorVars, input, labels>>, tail' \in Lines \cup {Null, Junk, Garbled},
           calls' \in [Articles -> Nat], stopped' \in Nat
    PROVE  /\ TypeOK' /\ RunInv' /\ BudgetKept'
           /\ run'.dry = run.dry /\ run'.torn = run.torn
           /\ run'.limit = run.limit /\ run'.count = run.count
<1>1. run \in Run /\ run.limit \in Limits \cup {0} /\ run.count \in Nat
  BY DEF LabelInv, TypeOK, Run
<1>2. run' = [run EXCEPT !.on = FALSE, !.done = {}, !.cost = 0] /\ exit' = code
  BY DEF Exit
<1>3. run' \in Run /\ ~run'.on
  BY <1>1, <1>2 DEF Run
<1>4. /\ run'.dry = run.dry /\ run'.torn = run.torn /\ run'.cost = 0
      /\ run'.limit = run.limit /\ run'.count = run.count
      /\ run'.fresh = run.fresh /\ run'.started = run.started
  BY <1>1, <1>2 DEF Run
<1>5. TypeOK'
  BY <1>2, <1>3 DEF LabelInv, TypeOK, collectorVars
<1>6. RunInv'
  BY <1>3, <1>4 DEF LabelInv, RunInv, collectorVars
<1>7. BudgetKept'
  BY <1>4, LabelAssumption DEF BudgetKept
<1> QED BY <1>4, <1>5, <1>6, <1>7

\* What a run that ends with 0 leaves unlabelled.
LEMMA FinishStep == ASSUME LabelInv, Finish PROVE LabelInv'
<1>1. run.on /\ Exit("0") /\ UNCHANGED <<collectorVars, input, fileVars, callVars>>
  BY DEF Finish
<1>2. UNCHANGED <<collectorVars, input, labels, tail, calls, stopped>>
  BY <1>1 DEF fileVars, callVars
<1>3. /\ TypeOK' /\ RunInv' /\ BudgetKept'
      /\ run'.dry = run.dry /\ run'.torn = run.torn
      /\ run'.limit = run.limit /\ run'.count = run.count
  BY <1>1, <1>2, ExitTypes DEF LabelInv, TypeOK
<1>4. ASSUME ~run.dry PROVE \/ run.limit # 0 /\ run.count = run.limit
                            \/ Unlabelled = {}
                            \/ run.torn /\ \A a, b, c \in Unlabelled : a = b \/ a = c \/ b = c
  <2>1. run.limit # 0 => (run.limit \in Nat /\ run.count \in Nat /\ run.count <= run.limit)
    BY LabelAssumption DEF LabelInv, TypeOK, RunInv, Run
  <2>2. CASE LimitReached
    BY <2>1, <2>2 DEF LimitReached
  <2>3. CASE AtEnd
    <3>1. /\ run.pos \in Nat /\ run.pos > Len(input)
          /\ input \in Seq(Articles \cup {Torn})
      BY <1>1, <2>3 DEF AtEnd, LabelInv, TypeOK, RunInv, Run
    <3>2. Unlabelled \subseteq Passed \ Labelled
      <4>1. SUFFICES ASSUME NEW a \in Unlabelled PROVE a \in Passed /\ a \notin Labelled
        OBVIOUS
      <4>2. a \notin Labelled /\ InInput(a)
        BY DEF Unlabelled
      <4>3. PICK i \in DOMAIN input : input[i] = a
        BY <4>2 DEF InInput
      <4>4. i \in 1..(run.pos - 1)
        BY <3>1, <4>3
      <4> QED BY <4>2, <4>3, <4>4 DEF Passed
    <3>3. Covered
      BY <1>1, <1>4 DEF LabelInv, RunInv
    <3>4. CASE Passed \subseteq Labelled
      BY <3>2, <3>4
    <3>5. CASE run.torn /\ \E x : Passed \subseteq Labelled \cup {x}
      BY <3>2, <3>5
    <3>6. CASE run.torn /\ \E x, y : Passed \subseteq Labelled \cup {x, y}
      BY <3>2, <3>6
    <3> QED BY <3>3, <3>4, <3>5, <3>6 DEF Covered
  <2> QED BY <2>2, <2>3 DEF Finish
<1>5. Unlabelled' = Unlabelled
  BY <1>2 DEF Unlabelled, InInput, Labelled, Readable
<1>6. ZeroMeansLabelled'
  BY <1>3, <1>4, <1>5 DEF ZeroMeansLabelled
<1> QED BY <1>3, <1>6 DEF LabelInv

\* The runs that end otherwise: a torn line, the budget, an answer, a kill.
LEMMA AbortStep ==
    ASSUME LabelInv, ReadTornLine \/ StopAtBudget \/ AnswerRaises \/ KillLabelling
    PROVE  LabelInv'
<1>1. run.on /\ input # Missing /\ input \in Seq(Articles \cup {Torn})
  BY DEF ReadTornLine, StopAtBudget, AnswerRaises, KillLabelling, MayCall, ToLabel,
         AtArticle, InLoop, LabelInv, RunInv, TypeOK
<1>2. /\ Exit("1") \/ Exit("killed")
      /\ UNCHANGED <<collectorVars, input, labels>>
  BY DEF ReadTornLine, StopAtBudget, AnswerRaises, KillLabelling, fileVars
<1>3. tail' \in Lines \cup {Null, Junk, Garbled}
  <2>1. CASE tail' = tail
    BY <2>1 DEF LabelInv, TypeOK
  <2>2. CASE tail' # tail
    <3>1. KillLabelling
      BY <2>2 DEF ReadTornLine, StopAtBudget, AnswerRaises, fileVars
    <3>2. MayCall
      BY <2>2, <3>1 DEF KillLabelling
    <3>3. PICK result \in LabelOne(input[run.pos]) : tail' \in {tail} \cup Cut(result.label)
      BY <2>2, <3>1 DEF KillLabelling
    <3>4. input[run.pos] \in Articles
      BY <1>1, <3>2 DEF MayCall, ToLabel, AtArticle, InLoop, AtEnd, LabelInv, TypeOK, Run
    <3>5. result.label \in Lines
      BY <3>3, <3>4, LabelOneTypes
    <3> QED BY <3>3, <3>5 DEF Cut, Glued, LabelInv, TypeOK
  <2> QED BY <2>1, <2>2
<1>c. calls' \in [Articles -> Nat] /\ stopped' \in Nat
  BY CallTypes DEF KillLabelling, ReadTornLine, StopAtBudget, AnswerRaises, callVars,
         LabelInv, TypeOK
<1>4. TypeOK' /\ RunInv' /\ BudgetKept'
  BY <1>1, <1>2, <1>3, <1>c, ExitTypes
<1>5. ZeroMeansLabelled'
  BY <1>2 DEF Exit, ZeroMeansLabelled
<1> QED BY <1>4, <1>5 DEF LabelInv

\* One more line is behind the run.
LEMMA Advance ==
    ASSUME LabelInv, AtArticle, input' = input, NEW count \in Nat, NEW cost \in Nat,
           run' = [run EXCEPT !.pos = run.pos + 1, !.count = count, !.cost = cost]
    PROVE  /\ run' \in Run /\ run'.on
           /\ run'.count = count /\ run'.cost = cost /\ run'.limit = run.limit
           /\ run'.fresh = run.fresh /\ run'.started = run.started
           /\ run'.dry = run.dry /\ run'.torn = run.torn
           /\ input[run.pos] \in Articles
           /\ Passed' = Passed \cup {input[run.pos]}
<1>1. run \in Run /\ run.on /\ run.pos \in Nat \ {0}
  BY DEF LabelInv, TypeOK, Run, AtArticle, InLoop
<1>2. input \in Seq(Articles \cup {Torn}) /\ input[run.pos] \in Articles
  BY <1>1 DEF AtArticle, InLoop, AtEnd, LabelInv, TypeOK, RunInv
<1> DEFINE next == run.pos + 1
<1>3. next \in Nat \ {0} /\ 1..(next - 1) = 1..(run.pos - 1) \cup {run.pos}
  BY <1>1
<1> HIDE DEF next
<1>4. run' = [run EXCEPT !.pos = next, !.count = count, !.cost = cost]
  BY DEF next
<1>5. run' \in Run
  BY <1>1, <1>3, <1>4 DEF Run
<1>6. /\ run'.on /\ run'.count = count /\ run'.cost = cost /\ run'.limit = run.limit
      /\ run'.fresh = run.fresh /\ run'.started = run.started
      /\ run'.dry = run.dry /\ run'.torn = run.torn
      /\ run'.pos = next /\ run'.done = run.done
  BY <1>1, <1>4 DEF Run
<1>7. Passed' = {input[p] : p \in 1..(next - 1)} \cup run.done
  BY <1>6 DEF Passed
<1>8. {input[p] : p \in 1..(next - 1)} = {input[p] : p \in 1..(run.pos - 1)} \cup {input[run.pos]}
  BY <1>3
<1> QED BY <1>2, <1>5, <1>6, <1>7, <1>8 DEF Passed

\* The steps that stay in the loop.
LEMMA StayStep == ASSUME LabelInv, SkipDone \/ PrintPrompt \/ LabelArticle PROVE LabelInv'
<1>1. /\ AtArticle /\ input' = input /\ exit' = exit /\ UNCHANGED collectorVars
  BY DEF SkipDone, PrintPrompt, LabelArticle, MayCall, ToLabel
<1>2. /\ run \in Run /\ run.on /\ run.pos \in Nat \ {0}
      /\ queue = -1 /\ input # Missing /\ exit = "none" /\ run.fresh <= run.started
  BY <1>1 DEF LabelInv, TypeOK, RunInv, Run, AtArticle, InLoop
<1>3. run.count \in Nat /\ run.cost \in Nat /\ run.limit \in Nat
  <2>1. run.count \in Nat /\ run.cost \in Nat /\ run.limit \in Limits \cup {0}
    BY <1>2 DEF Run
  <2>2. Limits \cup {0} \subseteq Nat
    BY LabelAssumption
  <2> QED BY <2>1, <2>2
<1>4. run.limit # 0 => run.count < run.limit
  BY <1>1, <1>3 DEF AtArticle, InLoop, LimitReached
<1> DEFINE a == input[run.pos]
<1>5. ASSUME NEW count \in {run.count, run.count + 1}, NEW cost \in Nat,
             cost < Budget + MaxCost,
             run' = [run EXCEPT !.pos = run.pos + 1, !.count = count, !.cost = cost],
             labels' \in Seq(Lines \cup {Junk, Garbled}), tail' \in Lines \cup {Null, Junk, Garbled},
             calls' \in [Articles -> Nat], stopped' \in Nat,
             ~run.dry => Covered'
      PROVE  LabelInv'
  <2>1. count \in Nat
    BY <1>3
  <2>2. /\ run' \in Run /\ run'.on /\ run'.dry = run.dry
        /\ run'.count = count /\ run'.cost = cost /\ run'.limit = run.limit
        /\ run'.fresh = run.fresh /\ run'.started = run.started
    BY <1>1, <1>5, <2>1, Advance
  <2>3. TypeOK'
    BY <1>1, <1>5, <2>2 DEF LabelInv, TypeOK, collectorVars
  <2>4. run'.limit # 0 => run'.count <= run'.limit
    BY <1>3, <1>4, <2>2
  <2>5. RunInv'
    BY <1>1, <1>2, <1>5, <2>2, <2>4 DEF RunInv, collectorVars
  <2>6. BudgetKept'
    BY <1>5, <2>2 DEF BudgetKept
  <2>7. ZeroMeansLabelled'
    BY <1>1, <1>2 DEF ZeroMeansLabelled
  <2> QED BY <2>3, <2>5, <2>6, <2>7 DEF LabelInv
<1>6. ~run.dry => Covered
  BY <1>2 DEF LabelInv, RunInv
<1>7. CASE SkipDone
  <2>1. /\ run' = [run EXCEPT !.pos = run.pos + 1] /\ a \in run.done
        /\ labels' = labels /\ tail' = tail /\ calls' = calls /\ stopped' = stopped
    BY <1>7 DEF SkipDone, fileVars, callVars
  <2>2. run' = [run EXCEPT !.pos = run.pos + 1, !.count = run.count, !.cost = run.cost]
    BY <1>2, <2>1 DEF Run
  <2>3. /\ Passed' = Passed \cup {a} /\ run'.torn = run.torn
    BY <1>1, <1>3, <2>2, Advance
  <2>4. Passed' = Passed /\ Labelled' = Labelled
    BY <2>1, <2>3 DEF Passed, Labelled, Readable
  <2>5. ~run.dry => Covered'
    BY <1>6, <2>1, <2>3, <2>4 DEF Covered
  <2>6. run.cost < Budget + MaxCost
    BY DEF LabelInv, BudgetKept
  <2>7. /\ labels' \in Seq(Lines \cup {Junk, Garbled}) /\ tail' \in Lines \cup {Null, Junk, Garbled}
        /\ calls' \in [Articles -> Nat] /\ stopped' \in Nat
    BY <2>1 DEF LabelInv, TypeOK
  <2> QED BY <1>3, <1>5, <2>2, <2>5, <2>6, <2>7
<1>8. CASE PrintPrompt
  <2>1. /\ run' = [run EXCEPT !.pos = run.pos + 1, !.count = run.count + 1] /\ run.dry
        /\ labels' = labels /\ tail' = tail /\ calls' = calls /\ stopped' = stopped
    BY <1>8 DEF PrintPrompt, fileVars, callVars
  <2> DEFINE count == run.count + 1
  <2>2. count \in {run.count, run.count + 1}
    OBVIOUS
  <2> HIDE DEF count
  <2>3. run' = [run EXCEPT !.pos = run.pos + 1, !.count = count, !.cost = run.cost]
    BY <1>2, <2>1 DEF Run, count
  <2>4. run.cost < Budget + MaxCost
    BY DEF LabelInv, BudgetKept
  <2>5. /\ labels' \in Seq(Lines \cup {Junk, Garbled}) /\ tail' \in Lines \cup {Null, Junk, Garbled}
        /\ calls' \in [Articles -> Nat] /\ stopped' \in Nat
    BY <2>1 DEF LabelInv, TypeOK
  <2> QED BY <1>3, <1>5, <2>1, <2>2, <2>3, <2>4, <2>5
<1>9. CASE LabelArticle
  <2>1. a \in Articles
    BY <1>2, <1>1 DEF AtArticle, InLoop, AtEnd, LabelInv, TypeOK
  <2>2. PICK result \in LabelOne(a) :
           /\ Write(result.label)
           /\ run' = [run EXCEPT !.pos = run.pos + 1, !.count = run.count + 1,
                                 !.cost = run.cost + result.cost]
    BY <1>9 DEF LabelArticle
  <2>3. result.label \in Lines /\ result.label.article = a /\ result.cost \in 0..MaxCost
    BY <2>1, LabelOneTypes
  <2>4. ~BudgetSpent
    BY <1>9 DEF LabelArticle, MayCall
  <2> DEFINE count == run.count + 1
             cost == run.cost + result.cost
  <2>5. count \in {run.count, run.count + 1} /\ count \in Nat
    BY <1>3
  <2>6. cost \in Nat /\ cost < Budget + MaxCost
    BY <1>3, <2>3, <2>4, LabelAssumption DEF BudgetSpent
  <2> HIDE DEF count, cost
  <2>7. run' = [run EXCEPT !.pos = run.pos + 1, !.count = count, !.cost = cost]
    BY <2>2 DEF count, cost
  <2>8. /\ labels' \in Seq(Lines \cup {Junk, Garbled}) /\ tail' = Null
        /\ tail = Null => Labelled' = Labelled \cup {a}
        /\ Labelled \subseteq Labelled'
    BY <2>2, <2>3, WriteTypes DEF LabelInv
  <2>9. Passed' = Passed \cup {a} /\ run'.torn = run.torn
    BY <1>1, <2>5, <2>6, <2>7, Advance
  <2>10. ASSUME Covered PROVE Covered'
    <3>1. CASE ~run.torn /\ tail = Null /\ Passed \subseteq Labelled
      BY <2>8, <2>9, <3>1 DEF Covered
    <3>2. CASE run.torn /\ tail # Null /\ \E x : Passed \subseteq Labelled \cup {x}
      <4>1. PICK x : Passed \subseteq Labelled \cup {x}
        BY <3>2
      <4>2. Passed' \subseteq Labelled' \cup {x, a}
        BY <2>8, <2>9, <4>1
      <4>3. \E y, z : Passed' \subseteq Labelled' \cup {y, z}
        BY <4>2
      <4> QED BY <2>8, <2>9, <3>2, <4>3, Zenon DEF Covered
    <3>3. CASE run.torn /\ tail = Null /\ \E x, y : Passed \subseteq Labelled \cup {x, y}
      <4>1. PICK x, y : Passed \subseteq Labelled \cup {x, y}
        BY <3>3
      <4>2. Passed' \subseteq Labelled' \cup {x, y}
        BY <2>8, <2>9, <3>3, <4>1
      <4> QED BY <2>8, <2>9, <3>3, <4>2 DEF Covered
    <3> QED BY <2>10, <3>1, <3>2, <3>3 DEF Covered
  <2>11. ~run.dry => Covered'
    BY <1>6, <2>10
  <2>12. calls' \in [Articles -> Nat] /\ stopped' \in Nat
    BY <1>9, CallTypes DEF LabelArticle, LabelInv, TypeOK
  <2> QED BY <1>5, <2>5, <2>6, <2>7, <2>8, <2>11, <2>12
<1> QED BY <1>7, <1>8, <1>9

\* Every step keeps the invariant.
LEMMA LabelStep == LabelInv /\ [Next]_vars => LabelInv'
<1> SUFFICES ASSUME LabelInv, [Next]_vars PROVE LabelInv'
  OBVIOUS
<1>1. CASE Collect
  BY <1>1, CollectorStep
<1>2. ASSUME NEW limit \in Limits, NEW resume \in BOOLEAN, NEW dry \in BOOLEAN,
             StartLabelling(limit, resume, dry)
      PROVE  LabelInv'
  BY <1>2, StartStep
<1>3. CASE Loop
  BY <1>3, FinishStep, AbortStep, StayStep DEF Loop
<1>4. CASE KillLabelling
  BY <1>4, AbortStep
<1>5. CASE UNCHANGED vars
  <2>1. /\ UNCHANGED <<collected, queue, gathered, input, labels, tail, calls, stopped, run, exit>>
    BY <1>5 DEF vars, collectorVars, fileVars, callVars
  <2>2. Labelled' = Labelled /\ Passed' = Passed
    BY <2>1 DEF Labelled, Readable, Passed
  <2>3. Unlabelled' = Unlabelled /\ (Covered <=> Covered')
    BY <2>1, <2>2 DEF Unlabelled, InInput, Covered
  <2>4. TypeOK' /\ BudgetKept'
    BY <2>1 DEF LabelInv, TypeOK, BudgetKept
  <2>5. RunInv' /\ ZeroMeansLabelled'
    BY <2>1, <2>3 DEF LabelInv, RunInv, ZeroMeansLabelled
  <2> QED BY <2>4, <2>5 DEF LabelInv
<1> QED BY <1>1, <1>2, <1>3, <1>4, <1>5 DEF Next

LEMMA LabelInvariant == Spec => []LabelInv
BY LabelInit, LabelStep, PTL DEF Spec

-------------------------------------------------------------------------------
(* The theorems.                                                            *)

\* Every line of the file of labels that parses obeys the schema, whatever the model
\* answers and wherever a run is stopped.
THEOREM LabelsObeySchema == Spec => []LinesObeySchema
<1>1. LabelInv => LinesObeySchema
  BY DEF LabelInv, TypeOK, LinesObeySchema, Readable
<1> QED BY <1>1, LabelInvariant, PTL

\* A run overruns --max-cost-usd by less than one call.
THEOREM OverrunIsOneCall == Spec => []BudgetKept
<1>1. LabelInv => BudgetKept
  BY DEF LabelInv
<1> QED BY <1>1, LabelInvariant, PTL

\* What a run that ends with 0 has left without a label: nothing if it found the file of
\* labels ended and read the whole input, else at most two articles.
THEOREM ZeroLeavesAtMostTwo == Spec => []ZeroMeansLabelled
<1>1. LabelInv => ZeroMeansLabelled
  BY DEF LabelInv
<1> QED BY <1>1, LabelInvariant, PTL

-------------------------------------------------------------------------------
(* How many lines there are about an article.                               *)

LinesOf(article) ==
    {i \in DOMAIN labels : labels[i] \notin {Junk, Garbled} /\ labels[i].article = article}

\* The lines about an article are as many as one input may repeat it, times the runs told
\* not to resume.
LabelledOnce ==
    \A a \in Articles :
        Cardinality(LinesOf(a))
            <= PerSite * Cardinality({i \in DOMAIN Sites : a \in Sites[i]})
                       * (1 + run.fresh)

\* The places of an article among the first n of a sequence.
Places(articles, n, a) == {i \in 1..n : articles[i] = a}

\* How often the first n sites may list an article, all told.
Listed(n, a) == PerSite * Cardinality({i \in 1..n : a \in Sites[i]})

\* The collector repeats an article no more often than the sites it visited may.
GatheredInv ==
    queue # -1 =>
        \A a \in Articles :
            Cardinality(Places(gathered, Len(gathered), a)) <= Listed(queue, a)

\* Nor does the file it writes, a cut one either.
InputInv ==
    input # Missing =>
        \A a \in Articles :
            Cardinality(Places(input, Len(input), a)) <= Listed(Len(Sites), a)

\* What a real run has not taken as done it has labelled once per place it has passed,
\* and, when it was told not to resume, on top of what the runs before it labelled.
PassedInv ==
    run.on /\ ~run.dry =>
        \A a \in Articles \ run.done :
            Cardinality(LinesOf(a))
                <= (IF run.resume THEN 0 ELSE Listed(Len(Sites), a) * run.fresh)
                   + Cardinality(Places(input, run.pos - 1, a))

\* The inductive invariant of LabelledOnce, besides LabelInv.
LinesInv == GatheredInv /\ InputInv /\ PassedInv /\ LabelledOnce

\* Places are finitely many, and one more place counts for one more if it is the article's.
LEMMA PlacesTypes ==
    ASSUME NEW s, NEW n \in Nat, NEW a
    PROVE  /\ IsFiniteSet(Places(s, n, a)) /\ Cardinality(Places(s, n, a)) \in Nat
           /\ Cardinality(Places(s, n + 1, a))
                  = Cardinality(Places(s, n, a)) + (IF s[n + 1] = a THEN 1 ELSE 0)
           /\ Places(s, 0, a) = {}
<1>1. IsFiniteSet(1..n)
  BY FS_Interval
<1>2. Places(s, n, a) \in SUBSET (1..n)
  BY DEF Places
<1>3. IsFiniteSet(Places(s, n, a))
  BY <1>1, <1>2, FS_Subset
<1>4. Cardinality(Places(s, n, a)) \in Nat
  BY <1>3, FS_CardinalityType
<1>5. ASSUME s[n + 1] = a
      PROVE  Cardinality(Places(s, n + 1, a)) = Cardinality(Places(s, n, a)) + 1
  <2> DEFINE next == n + 1
  <2>1. Places(s, next, a) = Places(s, n, a) \cup {next} /\ next \notin Places(s, n, a)
    BY <1>5 DEF Places
  <2> HIDE DEF next
  <2>2. Cardinality(Places(s, next, a)) = Cardinality(Places(s, n, a)) + 1
    BY <1>3, <2>1, FS_AddElement
  <2> QED BY <2>2 DEF next
<1>6. ASSUME s[n + 1] # a PROVE Places(s, n + 1, a) = Places(s, n, a)
  BY <1>6 DEF Places
<1>7. Places(s, 0, a) = {}
  BY DEF Places
<1> QED BY <1>3, <1>4, <1>5, <1>6, <1>7

\* A part of the places is no more than all of them.
LEMMA FewerPlaces ==
    ASSUME NEW s, NEW n \in Nat, NEW t, NEW m \in Nat, NEW a,
           Places(t, m, a) \subseteq Places(s, n, a)
    PROVE  Cardinality(Places(t, m, a)) <= Cardinality(Places(s, n, a))
<1>1. IsFiniteSet(Places(s, n, a))
  BY PlacesTypes
<1> QED BY <1>1, FS_Subset

\* What is joined to a sequence adds at most its length, and nothing if it is without the
\* article.
LEMMA PlacesOfJoined ==
    ASSUME NEW S, NEW s \in Seq(S), NEW t \in Seq(S), NEW a
    PROVE  /\ Cardinality(Places(s \o t, Len(s \o t), a))
                  <= Cardinality(Places(s, Len(s), a)) + Len(t)
           /\ (\A i \in 1..Len(t) : t[i] # a) =>
                  Places(s \o t, Len(s \o t), a) = Places(s, Len(s), a)
<1> DEFINE m == Len(s)
           n == Len(t)
           added == Places(s \o t, Len(s \o t), a) \ Places(s, Len(s), a)
<1>1. /\ m \in Nat /\ n \in Nat /\ Len(s \o t) = m + n
      /\ \A i \in 1..m : (s \o t)[i] = s[i]
      /\ \A i \in (m + 1)..(m + n) : (s \o t)[i] = t[i - m]
  BY ConcatProperties
<1>2. /\ Places(s \o t, Len(s \o t), a) = Places(s, Len(s), a) \cup added
      /\ added \in SUBSET ((m + 1)..(m + n))
  BY <1>1 DEF Places
<1>3. IsFiniteSet((m + 1)..(m + n)) /\ Cardinality((m + 1)..(m + n)) = n
  <2> DEFINE low == m + 1
             high == m + n
  <2>1. low \in Int /\ high \in Int /\ (IF low > high THEN 0 ELSE high - low + 1) = n
    BY <1>1
  <2> HIDE DEF low, high
  <2>2. IsFiniteSet(low..high) /\ Cardinality(low..high) = n
    BY <2>1, FS_Interval
  <2> QED BY <2>2 DEF low, high
<1>4. IsFiniteSet(added) /\ Cardinality(added) <= n /\ Cardinality(added) \in Nat
  BY <1>2, <1>3, FS_Subset, FS_CardinalityType
<1>5. IsFiniteSet(Places(s, Len(s), a)) /\ Cardinality(Places(s, Len(s), a)) \in Nat
  BY <1>1, PlacesTypes
<1>6. Places(s, Len(s), a) \cap added = {}
  OBVIOUS
<1>7. Cardinality(Places(s, Len(s), a) \cup added)
          = Cardinality(Places(s, Len(s), a)) + Cardinality(added)
  <2> HIDE DEF added
  <2>1. Cardinality(Places(s, Len(s), a) \cup added)
            = Cardinality(Places(s, Len(s), a)) + Cardinality(added) - Cardinality({})
    BY <1>4, <1>5, <1>6, FS_Union
  <2> QED BY <1>4, <1>5, <2>1, FS_EmptySet
<1>8. ASSUME \A i \in 1..n : t[i] # a PROVE added = {}
  <2>1. ASSUME NEW i \in added PROVE FALSE
    <3>1. i \in (m + 1)..(m + n) /\ (s \o t)[i] = a
      BY <1>2 DEF Places
    <3>2. i - m \in 1..n /\ t[i - m] = a
      BY <1>1, <3>1
    <3> QED BY <1>8, <3>2
  <2> QED BY <2>1
<1>9. Cardinality(Places(s \o t, Len(s \o t), a)) <= Cardinality(Places(s, Len(s), a)) + Len(t)
  <2> DEFINE all == Cardinality(Places(s \o t, Len(s \o t), a))
             before == Cardinality(Places(s, Len(s), a))
             more == Cardinality(added)
  <2>1. all = before + more /\ before \in Nat /\ more \in Nat /\ more <= n /\ n \in Nat
    BY <1>1, <1>2, <1>4, <1>5, <1>7
  <2> HIDE DEF all, before, more, n
  <2>2. all <= before + n
    BY <2>1
  <2> QED BY <2>2 DEF all, before, n
<1>10. (\A i \in 1..Len(t) : t[i] # a) =>
          Places(s \o t, Len(s \o t), a) = Places(s, Len(s), a)
  BY <1>2, <1>8
<1> QED BY <1>9, <1>10

\* What the first sites may list grows by PerSite with each that lists the article.
LEMMA ListedTypes ==
    ASSUME NEW n \in Nat, NEW a
    PROVE  /\ Listed(n, a) \in Nat
           /\ Listed(n + 1, a) = Listed(n, a) + (IF a \in Sites[n + 1] THEN PerSite ELSE 0)
<1> DEFINE listing(k) == {i \in 1..k : a \in Sites[i]}
<1>1. IsFiniteSet(1..n) /\ listing(n) \in SUBSET (1..n)
  BY FS_Interval
<1>2. IsFiniteSet(listing(n)) /\ Cardinality(listing(n)) \in Nat
  BY <1>1, FS_Subset, FS_CardinalityType
<1>3. ASSUME a \in Sites[n + 1] PROVE Listed(n + 1, a) = Listed(n, a) + PerSite
  <2>1. listing(n + 1) = listing(n) \cup {n + 1} /\ n + 1 \notin listing(n)
    BY <1>3
  <2>2. Cardinality(listing(n) \cup {n + 1}) = Cardinality(listing(n)) + 1
    <3> DEFINE some == listing(n)
               next == n + 1
    <3>1. IsFiniteSet(some) /\ next \notin some
      BY <1>2, <2>1
    <3> HIDE DEF some, next
    <3>2. Cardinality(some \cup {next}) = Cardinality(some) + 1
      BY <3>1, FS_AddElement
    <3> QED BY <3>2 DEF some, next
  <2> DEFINE many == Cardinality(listing(n))
             more == Cardinality(listing(n + 1))
  <2>3. many \in Nat /\ more = many + 1
    BY <1>2, <2>1, <2>2
  <2> HIDE DEF many, more
  <2>4. PerSite * more = PerSite * many + PerSite
    BY <2>3, LabelAssumption
  <2> QED BY <2>4 DEF Listed, many, more
<1>4. ASSUME a \notin Sites[n + 1] PROVE Listed(n + 1, a) = Listed(n, a)
  <2>1. listing(n + 1) = listing(n)
    BY <1>4
  <2> QED BY <2>1 DEF Listed
<1>5. Listed(n, a) \in Nat
  <2> DEFINE many == Cardinality(listing(n))
  <2>1. many \in Nat
    BY <1>2
  <2> HIDE DEF many
  <2>2. PerSite * many \in Nat
    BY <2>1, LabelAssumption
  <2> QED BY <2>2 DEF Listed, many
<1> QED BY <1>3, <1>4, <1>5

\* The lines about an article are finitely many.
LEMMA LinesOfTypes ==
    ASSUME TypeOK, NEW a
    PROVE  IsFiniteSet(LinesOf(a)) /\ Cardinality(LinesOf(a)) \in Nat
<1>1. DOMAIN labels = 1..Len(labels) /\ Len(labels) \in Nat
  BY DEF TypeOK
<1>2. IsFiniteSet(1..Len(labels)) /\ LinesOf(a) \in SUBSET (1..Len(labels))
  BY <1>1, FS_Interval DEF LinesOf
<1> QED BY <1>2, FS_Subset, FS_CardinalityType

\* A line that is written adds one to the lines about its article, if any to any.
LEMMA LinesOfWritten ==
    ASSUME TypeOK, NEW line \in Lines, Write(line), NEW a
    PROVE  /\ Cardinality(LinesOf(a)') <= Cardinality(LinesOf(a)) + 1
           /\ line.article # a => LinesOf(a)' = LinesOf(a)
<1> DEFINE new == Glued(line)
           k == Len(labels) + 1
<1>1. labels \in Seq(Lines \cup {Junk, Garbled}) /\ new \in Lines \cup {Junk, Garbled}
  BY DEF TypeOK, Glued
<1>2. /\ labels' = Append(labels, new)
      /\ Len(labels) \in Nat
      /\ DOMAIN labels = 1..Len(labels) /\ DOMAIN labels' = 1..k
      /\ \A i \in 1..Len(labels) : labels'[i] = labels[i]
      /\ labels'[k] = new
  BY <1>1, AppendProperties DEF Write
<1>3. DOMAIN labels' = DOMAIN labels \cup {k}
  BY <1>2
<1>4. LinesOf(a)' \subseteq LinesOf(a) \cup {k} /\ LinesOf(a) \subseteq LinesOf(a)'
  BY <1>2, <1>3 DEF LinesOf
<1>5. ASSUME line.article # a PROVE k \notin LinesOf(a)'
  BY <1>2, <1>5 DEF LinesOf, Glued
<1>6. LinesOf(a)' = LinesOf(a) \/ LinesOf(a)' = LinesOf(a) \cup {k}
  BY <1>4
<1>7. IsFiniteSet(LinesOf(a)) /\ Cardinality(LinesOf(a)) \in Nat
  BY LinesOfTypes
<1> HIDE DEF k
<1>8. /\ Cardinality(LinesOf(a) \cup {k}) <= Cardinality(LinesOf(a)) + 1
      /\ Cardinality(LinesOf(a)) <= Cardinality(LinesOf(a)) + 1
  <2>1. Cardinality(LinesOf(a) \cup {k})
            = IF k \in LinesOf(a) THEN Cardinality(LinesOf(a)) ELSE Cardinality(LinesOf(a)) + 1
    BY <1>7, FS_AddElement
  <2> QED BY <1>7, <2>1
<1>9. Cardinality(LinesOf(a)') <= Cardinality(LinesOf(a)) + 1
  BY <1>6, <1>8
<1>10. line.article # a => LinesOf(a)' = LinesOf(a)
  BY <1>4, <1>5, <1>6
<1> QED BY <1>9, <1>10

\* LabelledOnce, by what all the sites may list.
LEMMA LabelledOnceByListed ==
    LabelledOnce <=> \A a \in Articles :
                    Cardinality(LinesOf(a)) <= Listed(Len(Sites), a) * (1 + run.fresh)
<1>1. DOMAIN Sites = 1..Len(Sites)
  BY LabelAssumption
<1>2. ASSUME NEW a PROVE {i \in DOMAIN Sites : a \in Sites[i]} = {i \in 1..Len(Sites) : a \in Sites[i]}
  BY <1>1
<1>3. ASSUME NEW a
      PROVE  PerSite * Cardinality({i \in DOMAIN Sites : a \in Sites[i]})
                = Listed(Len(Sites), a)
  BY <1>2 DEF Listed
<1> QED BY <1>3 DEF LabelledOnce

\* What one more run without resumption allows for.
LEMMA OneMoreRun ==
    ASSUME NEW w \in Nat, NEW f \in Nat
    PROVE  /\ w * f \in Nat
           /\ w * (1 + f) = w * f + w
OBVIOUS

\* All sites may list an article a number of times, and a run's fresh is a number.
LEMMA LinesTypes ==
    ASSUME LabelInv, NEW a
    PROVE  Listed(Len(Sites), a) \in Nat /\ run.fresh \in Nat
<1>1. Len(Sites) \in Nat
  BY LabelAssumption
<1>2. run.fresh \in 0..Labellings
  BY DEF LabelInv, TypeOK, Run
<1> QED BY <1>1, <1>2, ListedTypes, LabelAssumption

\* While the labels stay, the lines stay within bounds.
LEMMA NothingLabelled ==
    ASSUME LabelInv, LabelledOnce, labels' = labels, run'.fresh \in {run.fresh, run.fresh + 1}
    PROVE  LabelledOnce'
<1>1. SUFFICES ASSUME NEW a \in Articles
               PROVE  Cardinality(LinesOf(a))' <= Listed(Len(Sites), a) * (1 + run'.fresh)
  <2>1. (LabelledOnce <=> \A a \in Articles :
                        Cardinality(LinesOf(a)) <= Listed(Len(Sites), a) * (1 + run.fresh))'
    BY LabelledOnceByListed, PTL
  <2>2. \A a \in Articles : Listed(Len(Sites), a)' = Listed(Len(Sites), a)
    BY DEF Listed
  <2> QED BY <1>1, <2>1, <2>2
<1> DEFINE w == Listed(Len(Sites), a)
           lines == Cardinality(LinesOf(a))
<1>2. w \in Nat /\ run.fresh \in Nat
  BY LinesTypes
<1>3. lines <= w * (1 + run.fresh) /\ lines \in Nat /\ lines' = lines
  BY LabelledOnceByListed, LinesOfTypes DEF LabelInv, LinesOf
<1> HIDE DEF w, lines
<1> DEFINE f == run.fresh
           g == run'.fresh
<1>4. w * f \in Nat /\ w * (1 + f) = w * f + w /\ w * (1 + (f + 1)) = w * (f + 1) + w
  BY <1>2, OneMoreRun
<1>5. w * (f + 1) = w * f + w
  BY <1>2
<1>6. lines <= w * (1 + g)
  <2>1. CASE g = f
    BY <1>3, <2>1
  <2>2. CASE g = f + 1
    BY <1>2, <1>3, <1>4, <1>5, <2>2
  <2> QED BY <2>1, <2>2
<1> QED BY <1>3, <1>6 DEF w, lines

\* There are no lines at the start.
LEMMA LinesInit == Init => LinesInv
<1> SUFFICES ASSUME Init PROVE LinesInv
  OBVIOUS
<1>1. queue = -1 /\ input = Missing /\ labels = <<>> /\ ~run.on /\ run.fresh = 0
  BY DEF Init, NoRun
<1>2. LabelInv
  BY LabelInit
<1>3. ASSUME NEW a \in Articles
      PROVE  Cardinality(LinesOf(a)) <= Listed(Len(Sites), a) * (1 + run.fresh)
  <2>1. LinesOf(a) = {}
    BY <1>1 DEF LinesOf
  <2>2. Listed(Len(Sites), a) \in Nat
    BY <1>2, LinesTypes
  <2> QED BY <1>1, <2>1, <2>2, FS_EmptySet
<1>4. LabelledOnce
  BY <1>3, LabelledOnceByListed
<1> QED BY <1>1, <1>4 DEF LinesInv, GatheredInv, InputInv, PassedInv

\* The collector gathers within bounds, and writes what it has gathered or a part of it.
LEMMA LinesCollect == ASSUME LabelInv, LabelInv', LinesInv, Collect PROVE LinesInv'
<1>1. /\ labels' = labels /\ run'.fresh = run.fresh /\ ~run'.on
  <2>1. CASE StartCollector
    <3>1. run \in Run /\ labels' = labels
      BY <2>1 DEF LabelInv, TypeOK, StartCollector, fileVars
    <3>2. run' = [NoRun EXCEPT !.started = run.started, !.fresh = run.fresh]
      BY <2>1 DEF StartCollector
    <3> QED BY <3>1, <3>2 DEF NoRun
  <2>2. CASE FetchFromSite \/ WriteArticles \/ KillCollector
    <3>1. UNCHANGED <<fileVars, run>> /\ queue # -1
      BY <2>2, LabelAssumption DEF FetchFromSite, WriteArticles, KillCollector
    <3> QED BY <3>1 DEF fileVars, LabelInv, RunInv
  <2> QED BY <2>1, <2>2 DEF Collect
<1>2. LabelledOnce'
  BY <1>1, NothingLabelled DEF LinesInv
<1>3. PassedInv'
  BY <1>1 DEF PassedInv
<1>4. /\ gathered \in Seq(Articles) /\ Len(gathered) \in Nat /\ Len(Sites) \in Nat
      /\ queue \in -1..Len(Sites)
      /\ \A i \in 1..Len(Sites) : Sites[i] \subseteq Articles
  BY LabelAssumption DEF LabelInv, TypeOK
<1>5. ASSUME input' = input PROVE InputInv'
  BY <1>5 DEF LinesInv, InputInv, Places, Listed
<1>6. CASE StartCollector
  <2>1. queue' = 0 /\ gathered' = <<>> /\ input' = input
    BY <1>6 DEF StartCollector
  <2>2. ASSUME NEW a \in Articles
        PROVE  Cardinality(Places(<<>>, Len(<<>>), a)) <= Listed(0, a)
    <3>1. Places(<<>>, 0, a) = {} /\ Len(<<>>) = 0
      BY PlacesTypes
    <3>2. Listed(0, a) \in Nat
      BY ListedTypes
    <3> QED BY <3>1, <3>2, FS_EmptySet
  <2>3. GatheredInv'
    BY <2>1, <2>2 DEF GatheredInv, Places, Listed
  <2> QED BY <1>2, <1>3, <1>5, <2>1, <2>3 DEF LinesInv
<1>7. CASE FetchFromSite
  <2>1. PICK articles \in Fetched(queue + 1) : gathered' = gathered \o articles
    BY <1>7 DEF FetchFromSite
  <2>2. queue \in Nat /\ queue < Len(Sites) /\ queue' = queue + 1 /\ input' = input
    BY <1>4, <1>7 DEF FetchFromSite
  <2>3. PICK n \in 0..PerSite : articles \in [1..n -> Sites[queue + 1]]
    BY <2>1 DEF Fetched
  <2>4. /\ articles \in Seq(Articles) /\ Len(articles) = n /\ n \in Nat /\ n <= PerSite
        /\ \A i \in 1..n : articles[i] \in Sites[queue + 1]
    <3>1. n \in Nat /\ n <= PerSite /\ Sites[queue + 1] \subseteq Articles
      BY <1>4, <2>2, <2>3, LabelAssumption
    <3>2. articles \in Seq(Articles)
      BY <2>3, <3>1, IsASeq
    <3>3. Len(articles) = n
      BY <2>3, <3>1, <3>2, LenProperties
    <3> QED BY <2>3, <3>1, <3>2, <3>3
  <2>5. ASSUME NEW a \in Articles
        PROVE  Cardinality(Places(gathered', Len(gathered'), a)) <= Listed(queue + 1, a)
    <3> DEFINE before == Cardinality(Places(gathered, Len(gathered), a))
               after == Cardinality(Places(gathered', Len(gathered'), a))
               listed == Listed(queue, a)
    <3>1. before <= listed
      BY <2>2 DEF LinesInv, GatheredInv
    <3>2. before \in Nat /\ listed \in Nat
      BY <1>4, <2>2, PlacesTypes, ListedTypes
    <3>3. after <= before + n
      BY <1>4, <2>1, <2>4, PlacesOfJoined
    <3>4. (\A i \in 1..n : articles[i] # a) => after = before
      <4>1. (\A i \in 1..Len(articles) : articles[i] # a) =>
               Places(gathered \o articles, Len(gathered \o articles), a)
                   = Places(gathered, Len(gathered), a)
        BY <1>4, <2>4, PlacesOfJoined
      <4> QED BY <2>1, <2>4, <4>1
    <3>5. Listed(queue + 1, a) = listed + (IF a \in Sites[queue + 1] THEN PerSite ELSE 0)
      BY <2>2, ListedTypes
    <3>6. after \in Nat
      <4>1. gathered' \in Seq(Articles)
        BY DEF LabelInv, TypeOK
      <4>2. Len(gathered') \in Nat
        BY <4>1
      <4> QED BY <4>2, PlacesTypes
    <3> HIDE DEF before, after, listed
    <3>7. CASE a \in Sites[queue + 1]
      <4>1. after <= listed + PerSite
        BY <2>4, <3>1, <3>2, <3>3, <3>6, LabelAssumption
      <4> QED BY <3>5, <3>7, <4>1 DEF after
    <3>8. CASE a \notin Sites[queue + 1]
      <4>1. after = before
        BY <2>4, <3>4, <3>8
      <4>2. after <= listed + 0
        BY <3>1, <3>2, <4>1
      <4> QED BY <3>5, <3>8, <4>2 DEF after
    <3> QED BY <3>7, <3>8
  <2>6. GatheredInv'
    BY <2>2, <2>5 DEF GatheredInv, Places, Listed
  <2> QED BY <1>2, <1>3, <1>5, <2>2, <2>6 DEF LinesInv
<1>8. ASSUME WriteArticles \/ KillCollector PROVE LinesInv'
  <2>1. queue' = -1
    BY <1>8 DEF WriteArticles, KillCollector
  <2>2. GatheredInv'
    BY <2>1 DEF GatheredInv
  <2>3. CASE input' = input
    BY <1>2, <1>3, <1>5, <2>2, <2>3 DEF LinesInv
  <2>4. ASSUME NEW n \in 0..Len(gathered), NEW rest \in {<<>>, <<Torn>>}, queue = Len(Sites),
               input' = SubSeq(gathered, 1, n) \o rest
        PROVE  InputInv'
    <3>1. ASSUME NEW a \in Articles
          PROVE  Cardinality(Places(input', Len(input'), a)) <= Listed(Len(Sites), a)
      <4> DEFINE S == Articles \cup {Torn}
                 cut == SubSeq(gathered, 1, n)
      <4>1. /\ cut \in Seq(S) /\ Len(cut) = n
            /\ \A i \in 1..n : cut[i] = gathered[i]
        <5>1. gathered \in Seq(S)
          BY <1>4
        <5> QED BY <1>4, <5>1, SubSeqProperties
      <4>2. rest \in Seq(S) /\ (\A i \in 1..Len(rest) : rest[i] # a)
        <5>1. <<>> \in Seq(S) /\ <<Torn>> \in Seq(S) /\ Len(<<>>) = 0 /\ Len(<<Torn>>) = 1
          OBVIOUS
        <5>2. Torn # a
          BY LabelAssumption
        <5>3. CASE rest = <<>>
          BY <5>1, <5>3
        <5>4. CASE rest = <<Torn>>
          <6>1. 1..Len(rest) = {1} /\ rest[1] = Torn
            BY <5>4
          <6> QED BY <5>1, <5>2, <5>4, <6>1
        <5> QED BY <5>3, <5>4
      <4> HIDE DEF cut
      <4>3. Places(input', Len(input'), a) = Places(cut, Len(cut), a)
        <5>1. input' = cut \o rest
          BY <2>4 DEF cut
        <5> QED BY <4>1, <4>2, <5>1, PlacesOfJoined
      <4>4. Places(cut, n, a) \subseteq Places(gathered, Len(gathered), a)
        BY <1>4, <4>1 DEF Places
      <4>5. Cardinality(Places(cut, n, a)) <= Cardinality(Places(gathered, Len(gathered), a))
        BY <1>4, <4>4, FewerPlaces
      <4>6. Cardinality(Places(gathered, Len(gathered), a)) <= Listed(Len(Sites), a)
        BY <1>4, <2>4 DEF LinesInv, GatheredInv
      <4>7. Listed(Len(Sites), a) \in Nat
        BY LinesTypes
      <4>8. n \in Nat
        OBVIOUS
      <4>9. /\ Cardinality(Places(cut, n, a)) \in Nat
            /\ Cardinality(Places(gathered, Len(gathered), a)) \in Nat
        BY <1>4, <4>8, PlacesTypes
      <4> QED BY <4>1, <4>3, <4>5, <4>6, <4>7, <4>9
    <3> QED BY <3>1 DEF InputInv, Places, Listed
  <2>5. ASSUME queue = Len(Sites), input' = gathered PROVE InputInv'
    <3>1. \A a \in Articles :
             Cardinality(Places(gathered, Len(gathered), a)) <= Listed(Len(Sites), a)
      BY <1>4, <2>5 DEF LinesInv, GatheredInv
    <3>2. \A a \in Articles :
             Cardinality(Places(input', Len(input'), a)) <= Listed(Len(Sites), a)
      BY <2>5, <3>1
    <3> QED BY <3>2 DEF InputInv, Places, Listed
  <2>6. CASE WriteArticles
    BY <1>2, <1>3, <2>2, <2>3, <2>5, <2>6 DEF WriteArticles, LinesInv
  <2>7. CASE KillCollector
    BY <1>2, <1>3, <2>2, <2>3, <2>4, <2>7 DEF KillCollector, LinesInv
  <2> QED BY <1>8, <2>6, <2>7
<1> QED BY <1>6, <1>7, <1>8 DEF Collect

\* A run that resumes takes as done all that is labelled; one that does not may label again.
LEMMA LinesStart ==
    ASSUME LabelInv, LinesInv, NEW limit \in Limits, NEW resume \in BOOLEAN, NEW dry \in BOOLEAN,
           StartLabelling(limit, resume, dry)
    PROVE  LinesInv'
<1>1. ~run.on /\ queue = -1 /\ run \in Run /\ UNCHANGED <<queue, gathered, input, labels, tail>>
  BY DEF StartLabelling, Idle, collectorVars, fileVars, LabelInv, TypeOK
<1>2. GatheredInv' /\ InputInv'
  BY <1>1 DEF LinesInv, GatheredInv, InputInv, Places, Listed
<1>3. CASE RefuseLabelling(resume, dry)
  <2>1. ~run'.on /\ run'.fresh = run.fresh
    BY <1>1, <1>3 DEF RefuseLabelling, Run
  <2>2. LabelledOnce'
    BY <1>1, <2>1, NothingLabelled DEF LinesInv
  <2> QED BY <1>2, <2>1, <2>2 DEF LinesInv, PassedInv
<1>4. CASE OpenFiles(limit, resume, dry)
  <2> DEFINE fresh == run.fresh + (IF resume \/ dry THEN 0 ELSE 1)
             done == IF resume THEN LoadDoneIds ELSE {}
  <2>1. /\ run'.resume = resume /\ run'.dry = dry /\ run'.done = done
        /\ run'.pos = 1 /\ run'.fresh = fresh
    BY <1>4 DEF OpenFiles, NoRun
  <2>2. run.fresh \in Nat
    BY LinesTypes
  <2>3. LabelledOnce'
    BY <1>1, <2>1, <2>2, NothingLabelled DEF LinesInv
  <2>4. ASSUME NEW a \in Articles \ done, ~dry
        PROVE  Cardinality(LinesOf(a)) <= IF resume THEN 0 ELSE Listed(Len(Sites), a) * fresh
    <3>1. CASE resume
      <4>1. a \notin Labelled
        BY <2>4, <3>1 DEF LoadDoneIds, Labelled
      <4>2. LinesOf(a) = {}
        BY <4>1 DEF LinesOf, Labelled, Readable
      <4> QED BY <3>1, <4>2, FS_EmptySet
    <3>2. CASE ~resume
      <4>1. fresh = 1 + run.fresh
        BY <2>2, <2>4, <3>2
      <4>2. Cardinality(LinesOf(a)) <= Listed(Len(Sites), a) * (1 + run.fresh)
        BY LabelledOnceByListed DEF LinesInv
      <4> QED BY <3>2, <4>1, <4>2
    <3> QED BY <3>1, <3>2
  <2>5. ASSUME NEW a \in Articles
        PROVE  /\ Places(input, run'.pos - 1, a) = {}
               /\ LinesOf(a)' = LinesOf(a)
               /\ Cardinality(LinesOf(a)) \in Nat
               /\ Listed(Len(Sites), a) * fresh \in Nat
    <3>1. fresh \in Nat
      BY <2>2
    <3> HIDE DEF fresh
    <3>2. Listed(Len(Sites), a) * fresh \in Nat
      BY <3>1, LinesTypes, OneMoreRun
    <3>3. Places(input, run'.pos - 1, a) = {}
      BY <2>1 DEF Places
    <3> QED BY <1>1, <3>2, <3>3, LinesOfTypes DEF LinesOf, LabelInv
  <2> HIDE DEF fresh, done
  <2>6. ASSUME NEW a \in Articles \ done, ~dry
        PROVE  Cardinality(LinesOf(a)')
                   <= (IF resume THEN 0 ELSE Listed(Len(Sites), a) * fresh)
                      + Cardinality(Places(input, run'.pos - 1, a))
    <3>1. Cardinality(Places(input, run'.pos - 1, a)) = 0
      BY <2>5, FS_EmptySet
    <3> QED BY <2>4, <2>5, <2>6, <3>1
  <2>7. PassedInv'
    <3>1. ASSUME run'.on, ~run'.dry, NEW a \in Articles \ run'.done
          PROVE  Cardinality(LinesOf(a)')
                     <= (IF run'.resume THEN 0 ELSE Listed(Len(Sites), a) * run'.fresh)
                        + Cardinality(Places(input', run'.pos - 1, a))
      BY <1>1, <2>1, <2>6, <3>1
    <3> QED BY <3>1 DEF PassedInv, Places, Listed
  <2> QED BY <1>2, <2>3, <2>7 DEF LinesInv
<1> QED BY <1>3, <1>4 DEF StartLabelling

\* A step that keeps the labels and does not go on keeps the lines.
LEMMA LinesQuiet ==
    ASSUME LabelInv, LinesInv, UNCHANGED <<queue, gathered, input, labels>>,
           run'.fresh = run.fresh,
           \/ ~run'.on
           \/ run'.dry
           \/ /\ run.on /\ ~run.dry /\ run'.done = run.done /\ run'.resume = run.resume
              /\ run'.pos \in {run.pos, run.pos + 1} /\ run.pos \in Nat \ {0}
    PROVE  LinesInv'
<1>1. GatheredInv' /\ InputInv'
  BY DEF LinesInv, GatheredInv, InputInv, Places, Listed
<1>2. LabelledOnce'
  BY NothingLabelled DEF LinesInv
<1>3. ASSUME run.on, ~run.dry, run'.done = run.done, run'.resume = run.resume,
             run'.pos \in {run.pos, run.pos + 1}, run.pos \in Nat \ {0},
             NEW a \in Articles \ run'.done
      PROVE  Cardinality(LinesOf(a)')
                 <= (IF run'.resume THEN 0 ELSE Listed(Len(Sites), a) * run'.fresh)
                    + Cardinality(Places(input', run'.pos - 1, a))
  <2> DEFINE lines == Cardinality(LinesOf(a))
             allowed == IF run.resume THEN 0 ELSE Listed(Len(Sites), a) * run.fresh
             before == Cardinality(Places(input, run.pos - 1, a))
             after == Cardinality(Places(input, run'.pos - 1, a))
  <2>1. lines <= allowed + before
    BY <1>3 DEF LinesInv, PassedInv
  <2>2. before <= after
    <3>1. run.pos - 1 \in Nat /\ run'.pos - 1 \in Nat /\ run'.pos >= run.pos
      BY <1>3
    <3>2. ASSUME NEW m \in Nat, NEW n \in Nat, m <= n
          PROVE  Places(input, m, a) \subseteq Places(input, n, a)
      BY <3>2 DEF Places
    <3>3. Places(input, run.pos - 1, a) \subseteq Places(input, run'.pos - 1, a)
      BY <1>3, <3>1, <3>2
    <3> QED BY <3>1, <3>3, FewerPlaces
  <2>3. before \in Nat /\ after \in Nat
    <3>1. run.pos - 1 \in Nat /\ run'.pos - 1 \in Nat
      BY <1>3
    <3> QED BY <3>1, PlacesTypes
  <2>4. lines \in Nat
    BY LinesOfTypes DEF LabelInv
  <2>5. allowed \in Nat
    BY LinesTypes, OneMoreRun
  <2>6. LinesOf(a)' = LinesOf(a) /\ Cardinality(Places(input', run'.pos - 1, a)) = after
    BY DEF LinesOf, Places
  <2> HIDE DEF lines, allowed, before, after
  <2>7. lines <= allowed + after
    BY <2>1, <2>2, <2>3, <2>4, <2>5
  <2> QED BY <1>3, <2>6, <2>7 DEF lines, allowed
<1>4. PassedInv'
  <2>1. ASSUME run'.on, ~run'.dry, NEW a \in Articles \ run'.done
        PROVE  Cardinality(LinesOf(a)')
                   <= (IF run'.resume THEN 0 ELSE Listed(Len(Sites), a) * run'.fresh)
                      + Cardinality(Places(input', run'.pos - 1, a))
    BY <1>3, <2>1
  <2> QED BY <2>1 DEF PassedInv, Places, Listed
<1> QED BY <1>1, <1>2, <1>4 DEF LinesInv

\* A line is added for a place of the input that the run had not passed.
LEMMA LinesLabel == ASSUME LabelInv, LinesInv, LabelArticle PROVE LinesInv'
<1> DEFINE b == input[run.pos]
<1>1. /\ run.on /\ ~run.dry /\ run \in Run /\ run.pos \in Nat \ {0} /\ run.pos <= Len(input)
      /\ input # Missing /\ Len(input) \in Nat /\ b \in Articles /\ b \notin run.done
      /\ UNCHANGED <<queue, gathered, input>>
  <2>1. AtArticle /\ ~run.dry /\ b \notin run.done /\ UNCHANGED <<queue, gathered, input>>
    BY DEF LabelArticle, MayCall, ToLabel, collectorVars
  <2>2. run.on /\ run \in Run /\ run.pos \in Nat \ {0}
    BY <2>1 DEF AtArticle, InLoop, LabelInv, TypeOK, Run
  <2>3. input # Missing /\ input \in Seq(Articles \cup {Torn})
    BY <2>2 DEF LabelInv, RunInv, TypeOK
  <2>4. run.pos <= Len(input) /\ b \in Articles /\ Len(input) \in Nat
    BY <2>1, <2>2, <2>3 DEF AtArticle, InLoop, AtEnd
  <2> QED BY <2>1, <2>2, <2>3, <2>4
<1>2. PICK result \in LabelOne(b) :
         /\ Write(result.label)
         /\ run' = [run EXCEPT !.pos = run.pos + 1, !.count = run.count + 1,
                               !.cost = run.cost + result.cost]
  BY DEF LabelArticle
<1>3. result.label \in Lines /\ result.label.article = b
  BY <1>1, LabelOneTypes
<1>4. /\ run'.pos = run.pos + 1 /\ run'.done = run.done /\ run'.resume = run.resume
      /\ run'.fresh = run.fresh /\ run'.on /\ ~run'.dry
  BY <1>1, <1>2 DEF Run
<1>5. GatheredInv' /\ InputInv'
  BY <1>1 DEF LinesInv, GatheredInv, InputInv, Places, Listed
<1>a. ASSUME NEW a PROVE Cardinality(LinesOf(a)') \in Nat
  <2>1. TypeOK'
    BY StayStep DEF LabelInv
  <2>2. DOMAIN labels' = 1..Len(labels') /\ Len(labels') \in Nat
    BY <2>1 DEF TypeOK
  <2>3. IsFiniteSet(1..Len(labels')) /\ LinesOf(a)' \in SUBSET (1..Len(labels'))
    BY <2>2, FS_Interval DEF LinesOf
  <2> QED BY <2>3, FS_Subset, FS_CardinalityType
<1>6. ASSUME NEW a \in Articles \ run.done
      PROVE  Cardinality(LinesOf(a)')
                 <= (IF run.resume THEN 0 ELSE Listed(Len(Sites), a) * run.fresh)
                    + Cardinality(Places(input, run.pos, a))
  <2> DEFINE lines == Cardinality(LinesOf(a))
             written == Cardinality(LinesOf(a)')
             allowed == IF run.resume THEN 0 ELSE Listed(Len(Sites), a) * run.fresh
             before == Cardinality(Places(input, run.pos - 1, a))
             after == Cardinality(Places(input, run.pos, a))
  <2>1. lines <= allowed + before
    BY <1>1, <1>6 DEF LinesInv, PassedInv
  <2>2. after = before + (IF b = a THEN 1 ELSE 0) /\ before \in Nat
    <3> DEFINE n == run.pos - 1
    <3>1. n \in Nat /\ n + 1 = run.pos
      BY <1>1
    <3> HIDE DEF n
    <3>2. Cardinality(Places(input, n + 1, a))
              = Cardinality(Places(input, n, a)) + (IF input[n + 1] = a THEN 1 ELSE 0)
      BY <3>1, PlacesTypes
    <3>3. Cardinality(Places(input, n, a)) \in Nat
      BY <3>1, PlacesTypes
    <3> QED BY <3>1, <3>2, <3>3 DEF n
  <2>3. /\ written <= lines + 1
        /\ b # a => written = lines
    BY <1>2, <1>3, LinesOfWritten DEF LabelInv
  <2>4. lines \in Nat /\ allowed \in Nat
    BY LinesOfTypes, LinesTypes, OneMoreRun DEF LabelInv
  <2>5. written \in Nat
    BY <1>a
  <2> HIDE DEF lines, written, allowed, before, after
  <2>6. written <= allowed + after
    BY <2>1, <2>2, <2>3, <2>4, <2>5
  <2> QED BY <2>6 DEF written, allowed, after
<1>7. PassedInv'
  <2>1. (run.pos + 1) - 1 = run.pos
    BY <1>1
  <2>2. ASSUME NEW a \in Articles \ run'.done
        PROVE  Cardinality(LinesOf(a)')
                   <= (IF run'.resume THEN 0 ELSE Listed(Len(Sites), a) * run'.fresh)
                      + Cardinality(Places(input', run'.pos - 1, a))
    BY <1>1, <1>4, <1>6, <2>1
  <2> QED BY <2>2 DEF PassedInv, Places, Listed
<1>8. ASSUME NEW a \in Articles
      PROVE  Cardinality(LinesOf(a)') <= Listed(Len(Sites), a) * (1 + run.fresh)
  <2> DEFINE w == Listed(Len(Sites), a)
             written == Cardinality(LinesOf(a)')
             after == Cardinality(Places(input, run.pos, a))
             f == run.fresh
  <2>1. w \in Nat /\ f \in Nat
    BY LinesTypes
  <2>2. CASE a \in run.done
    <3>1. LinesOf(a)' = LinesOf(a)
      BY <1>1, <1>2, <1>3, <2>2, LinesOfWritten DEF LabelInv
    <3> QED BY <3>1, LabelledOnceByListed DEF LinesInv
  <2>3. CASE a \notin run.done
    <3>1. written <= (IF run.resume THEN 0 ELSE w * f) + after
      BY <1>6, <2>3
    <3>2. after <= Cardinality(Places(input, Len(input), a))
      <4>1. Places(input, run.pos, a) \subseteq Places(input, Len(input), a)
        BY <1>1 DEF Places
      <4> QED BY <1>1, <4>1, FewerPlaces
    <3>3. Cardinality(Places(input, Len(input), a)) <= w
      BY <1>1 DEF LinesInv, InputInv
    <3>4. after \in Nat /\ Cardinality(Places(input, Len(input), a)) \in Nat
      BY <1>1, PlacesTypes
    <3>5. w * f \in Nat /\ w * (1 + f) = w * f + w
      BY <2>1, OneMoreRun
    <3>6. written \in Nat
      BY <1>a
    <3> DEFINE product == w * f
               bound == w * (1 + f)
               places == Cardinality(Places(input, Len(input), a))
    <3>7. /\ written <= (IF run.resume THEN 0 ELSE product) + after
          /\ after <= places /\ places <= w
          /\ after \in Nat /\ places \in Nat /\ written \in Nat
          /\ product \in Nat /\ bound = product + w
      BY <3>1, <3>2, <3>3, <3>4, <3>5, <3>6
    <3> HIDE DEF written, w, after, f, product, bound, places
    <3>8. written <= bound
      BY <2>1, <3>7
    <3> QED BY <3>8 DEF written, bound, w, f
  <2> QED BY <2>2, <2>3
<1>9. LabelledOnce'
  <2>1. (LabelledOnce <=> \A a \in Articles :
                        Cardinality(LinesOf(a)) <= Listed(Len(Sites), a) * (1 + run.fresh))'
    BY LabelledOnceByListed, PTL
  <2>2. \A a \in Articles : Listed(Len(Sites), a)' = Listed(Len(Sites), a)
    BY DEF Listed
  <2> QED BY <1>4, <1>8, <2>1, <2>2
<1> QED BY <1>5, <1>7, <1>9 DEF LinesInv

\* Every step keeps the lines within bounds.
LEMMA LinesStep == LabelInv /\ LabelInv' /\ LinesInv /\ [Next]_vars => LinesInv'
<1> SUFFICES ASSUME LabelInv, LabelInv', LinesInv, [Next]_vars PROVE LinesInv'
  OBVIOUS
<1>1. CASE Collect
  BY <1>1, LinesCollect
<1>2. ASSUME NEW limit \in Limits, NEW resume \in BOOLEAN, NEW dry \in BOOLEAN,
             StartLabelling(limit, resume, dry)
      PROVE  LinesInv'
  BY <1>2, LinesStart
<1>3. run \in Run /\ run.pos \in Nat \ {0}
  BY DEF LabelInv, TypeOK, Run
<1>4. ASSUME Finish \/ ReadTornLine \/ StopAtBudget \/ AnswerRaises \/ KillLabelling
      PROVE  LinesInv'
  <2>1. /\ UNCHANGED <<queue, gathered, input, labels>>
        /\ run' = [run EXCEPT !.on = FALSE, !.done = {}, !.cost = 0]
    BY <1>4 DEF Finish, ReadTornLine, StopAtBudget, AnswerRaises, KillLabelling, Exit,
                collectorVars, fileVars
  <2>2. ~run'.on /\ run'.fresh = run.fresh
    BY <1>3, <2>1 DEF Run
  <2> QED BY <2>1, <2>2, LinesQuiet
<1>5. CASE SkipDone
  <2>1. run.on /\ UNCHANGED <<queue, gathered, input, labels>> /\ run' = [run EXCEPT !.pos = run.pos + 1]
    BY <1>5 DEF SkipDone, AtArticle, InLoop, collectorVars, fileVars
  <2>2. /\ run'.fresh = run.fresh /\ run'.done = run.done /\ run'.resume = run.resume
        /\ run'.pos = run.pos + 1 /\ run'.dry = run.dry
    BY <1>3, <2>1 DEF Run
  <2> QED BY <1>3, <2>1, <2>2, LinesQuiet
<1>6. CASE PrintPrompt
  <2>1. /\ run.dry /\ UNCHANGED <<queue, gathered, input, labels>>
        /\ run' = [run EXCEPT !.pos = run.pos + 1, !.count = run.count + 1]
    BY <1>6 DEF PrintPrompt, collectorVars, fileVars
  <2>2. run'.fresh = run.fresh /\ run'.dry
    BY <1>3, <2>1 DEF Run
  <2> QED BY <2>1, <2>2, LinesQuiet
<1>7. CASE LabelArticle
  BY <1>7, LinesLabel
<1>8. CASE UNCHANGED vars
  <2>1. run' = run /\ UNCHANGED <<queue, gathered, input, labels>>
    BY <1>8 DEF vars, collectorVars, fileVars
  <2>2. run'.on \in BOOLEAN /\ run.dry \in BOOLEAN
    BY <1>3, <2>1 DEF Run
  <2> QED BY <1>3, <2>1, <2>2, LinesQuiet
<1> QED BY <1>1, <1>2, <1>4, <1>5, <1>6, <1>7, <1>8 DEF Next, Loop

-------------------------------------------------------------------------------
(* How often the API is called about an article.                            *)

\* A call leaves a line about its article, unless the run was stopped on it or the line was
\* glued to one that a stopped run had not ended.
CallsInv ==
    \A a \in Articles :
        calls[a] + (IF tail # Null THEN 1 ELSE 0) <= Cardinality(LinesOf(a)) + 2 * stopped

\* A line that is not glued to another is one more about its article; none is lost.
LEMMA LinesOfAdded ==
    ASSUME TypeOK, NEW line \in Lines, Write(line), NEW a
    PROVE  /\ Cardinality(LinesOf(a)') \in Nat
           /\ Cardinality(LinesOf(a)) <= Cardinality(LinesOf(a)')
           /\ tail = Null /\ line.article = a =>
                  Cardinality(LinesOf(a)') = Cardinality(LinesOf(a)) + 1
<1> DEFINE new == Glued(line)
           k == Len(labels) + 1
<1>1. labels \in Seq(Lines \cup {Junk, Garbled}) /\ new \in Lines \cup {Junk, Garbled}
  BY DEF TypeOK, Glued
<1>2. /\ labels' = Append(labels, new)
      /\ Len(labels) \in Nat
      /\ DOMAIN labels = 1..Len(labels) /\ DOMAIN labels' = 1..k
      /\ \A i \in 1..Len(labels) : labels'[i] = labels[i]
      /\ labels'[k] = new
  BY <1>1, AppendProperties DEF Write
<1>3. DOMAIN labels' = DOMAIN labels \cup {k} /\ k \notin DOMAIN labels
  BY <1>2
<1>4. /\ LinesOf(a)' \subseteq LinesOf(a) \cup {k} /\ LinesOf(a) \subseteq LinesOf(a)'
      /\ k \notin LinesOf(a)
  BY <1>2, <1>3 DEF LinesOf
<1>5. tail = Null /\ line.article = a => LinesOf(a)' = LinesOf(a) \cup {k}
  <2>1. ASSUME tail = Null, line.article = a PROVE k \in LinesOf(a)'
    <3>1. labels'[k] = line
      BY <1>2, <2>1 DEF Glued
    <3>2. line \notin {Junk, Garbled}
      BY LinesAssumption
    <3> QED BY <1>3, <2>1, <3>1, <3>2 DEF LinesOf
  <2> QED BY <1>4, <2>1
<1>6. IsFiniteSet(LinesOf(a)) /\ Cardinality(LinesOf(a)) \in Nat
  BY LinesOfTypes
<1> HIDE DEF k
<1>7. Cardinality(LinesOf(a) \cup {k}) = Cardinality(LinesOf(a)) + 1
  BY <1>4, <1>6, FS_AddElement
<1>8. LinesOf(a)' = LinesOf(a) \/ LinesOf(a)' = LinesOf(a) \cup {k}
  BY <1>4
<1>9. /\ Cardinality(LinesOf(a)') \in Nat
      /\ Cardinality(LinesOf(a)) <= Cardinality(LinesOf(a)')
  BY <1>6, <1>7, <1>8
<1> QED BY <1>5, <1>7, <1>9

\* No calls have been made at the start.
LEMMA CallsInit == Init => CallsInv
<1> SUFFICES ASSUME Init, NEW a \in Articles
             PROVE  calls[a] + (IF tail # Null THEN 1 ELSE 0)
                        <= Cardinality(LinesOf(a)) + 2 * stopped
  BY DEF CallsInv
<1>1. calls[a] = 0 /\ tail = Null /\ labels = <<>> /\ stopped = 0
  BY DEF Init
<1>2. LinesOf(a) = {}
  BY <1>1 DEF LinesOf
<1> QED BY <1>1, <1>2, FS_EmptySet

\* The steps without a call leave the labels and what follows them.
LEMMA CallsQuiet ==
    ASSUME LabelInv, CallsInv, UNCHANGED <<labels, tail, calls>>,
           stopped' \in {stopped, stopped + 1}
    PROVE  CallsInv'
<1> SUFFICES ASSUME NEW a \in Articles
             PROVE  (calls[a] + (IF tail # Null THEN 1 ELSE 0)
                        <= Cardinality(LinesOf(a)) + 2 * stopped)'
  BY DEF CallsInv
<1> DEFINE lines == Cardinality(LinesOf(a))
           unended == IF tail # Null THEN 1 ELSE 0
<1>1. calls[a] + unended <= lines + 2 * stopped
  BY DEF CallsInv
<1>2. /\ calls[a] \in Nat /\ stopped \in Nat /\ lines \in Nat /\ unended \in Nat
      /\ LinesOf(a)' = LinesOf(a)
  BY LinesOfTypes DEF LabelInv, TypeOK, LinesOf
<1> HIDE DEF lines, unended
<1>3. calls[a] + unended <= lines + 2 * stopped'
  BY <1>1, <1>2
<1> QED BY <1>2, <1>3 DEF lines, unended

\* The call is made, and its line is written or lost.
LEMMA CallsLabel == ASSUME LabelInv, CallsInv, LabelArticle PROVE CallsInv'
<1> DEFINE b == input[run.pos]
<1>1. b \in Articles /\ Call(b) /\ stopped' = stopped
  BY DEF LabelArticle, MayCall, ToLabel, AtArticle, InLoop, AtEnd, LabelInv, RunInv,
         TypeOK, Run
<1>2. PICK result \in LabelOne(b) : Write(result.label)
  BY DEF LabelArticle
<1>3. result.label \in Lines /\ result.label.article = b
  BY <1>1, LabelOneTypes
<1>4. ASSUME NEW a \in Articles
      PROVE  calls'[a] + (IF tail' # Null THEN 1 ELSE 0)
                 <= Cardinality(LinesOf(a)') + 2 * stopped'
  <2> DEFINE before == Cardinality(LinesOf(a))
             after == Cardinality(LinesOf(a)')
  <2>1. calls[a] + (IF tail # Null THEN 1 ELSE 0) <= before + 2 * stopped
    BY DEF CallsInv
  <2>2. calls[a] \in Nat /\ stopped \in Nat /\ before \in Nat
    BY LinesOfTypes DEF LabelInv, TypeOK
  <2>3. /\ after \in Nat /\ before <= after
        /\ tail = Null /\ b = a => after = before + 1
    BY <1>2, <1>3, LinesOfAdded DEF LabelInv
  <2>4. calls'[a] = calls[a] + (IF a = b THEN 1 ELSE 0)
    BY <1>1, CallTypes DEF LabelInv
  <2>5. tail' = Null
    BY <1>2 DEF Write
  <2> HIDE DEF before, after, b
  <2>6. calls'[a] <= after + 2 * stopped
    <3>1. CASE a # b
      BY <2>1, <2>2, <2>3, <2>4, <3>1
    <3>2. CASE a = b /\ tail = Null
      BY <2>1, <2>2, <2>3, <2>4, <3>2
    <3>3. CASE a = b /\ tail # Null
      BY <2>1, <2>2, <2>3, <2>4, <3>3
    <3> QED BY <3>1, <3>2, <3>3
  <2>7. calls'[a] \in Nat
    BY <2>2, <2>4
  <2> QED BY <1>1, <2>5, <2>6, <2>7 DEF after
<1> QED BY <1>4 DEF CallsInv

\* A run that is stopped on a call may lose it and leave a line without its end.
LEMMA CallsStopped ==
    ASSUME LabelInv, CallsInv, MayCall, Call(input[run.pos]), labels' = labels,
           stopped' = stopped + 1
    PROVE  CallsInv'
<1> SUFFICES ASSUME NEW a \in Articles
             PROVE  (calls[a] + (IF tail # Null THEN 1 ELSE 0)
                        <= Cardinality(LinesOf(a)) + 2 * stopped)'
  BY DEF CallsInv
<1> DEFINE lines == Cardinality(LinesOf(a))
           unended == IF tail # Null THEN 1 ELSE 0
<1>1. calls[a] + unended <= lines + 2 * stopped
  BY DEF CallsInv
<1>2. /\ calls[a] \in Nat /\ stopped \in Nat /\ lines \in Nat /\ unended \in Nat
      /\ unended' \in {0, 1} /\ LinesOf(a)' = LinesOf(a)
  BY LinesOfTypes DEF LabelInv, TypeOK, LinesOf
<1>3. calls'[a] = calls[a] + (IF a = input[run.pos] THEN 1 ELSE 0)
  BY CallTypes DEF LabelInv
<1>4. unended' = IF tail' # Null THEN 1 ELSE 0
  OBVIOUS
<1> HIDE DEF lines, unended
<1>5. calls'[a] + unended' <= lines + 2 * (stopped + 1)
  <2>1. calls'[a] \in Nat /\ calls'[a] <= calls[a] + 1
    BY <1>2, <1>3
  <2> QED BY <1>1, <1>2, <2>1
<1> QED BY <1>2, <1>4, <1>5 DEF lines

\* Every step keeps the calls within bounds.
LEMMA CallsStep == LabelInv /\ CallsInv /\ [Next]_vars => CallsInv'
<1> SUFFICES ASSUME LabelInv, CallsInv, [Next]_vars PROVE CallsInv'
  OBVIOUS
<1>1. CASE Collect
  BY <1>1, CallsQuiet DEF Collect, StartCollector, FetchFromSite, WriteArticles,
                          KillCollector, fileVars, callVars
<1>2. CASE \E limit \in Limits, resume, dry \in BOOLEAN : StartLabelling(limit, resume, dry)
  BY <1>2, CallsQuiet DEF StartLabelling, fileVars, callVars
<1>3. CASE Finish \/ ReadTornLine \/ SkipDone \/ PrintPrompt \/ StopAtBudget
  BY <1>3, CallsQuiet DEF Finish, ReadTornLine, SkipDone, PrintPrompt, StopAtBudget,
                          fileVars, callVars
<1>4. CASE LabelArticle
  BY <1>4, CallsLabel
<1>5. CASE AnswerRaises
  BY <1>5, CallsStopped DEF AnswerRaises, fileVars
<1>6. CASE KillLabelling
  <2>1. CASE UNCHANGED <<tail, calls>>
    BY <1>6, <2>1, CallsQuiet DEF KillLabelling
  <2>2. CASE MayCall /\ Call(input[run.pos])
    BY <1>6, <2>2, CallsStopped DEF KillLabelling
  <2> QED BY <1>6, <2>1, <2>2 DEF KillLabelling
<1>7. CASE UNCHANGED vars
  BY <1>7, CallsQuiet DEF vars, fileVars, callVars
<1> QED BY <1>1, <1>2, <1>3, <1>4, <1>5, <1>6, <1>7 DEF Next, Loop

\* Running the labeller again calls the API about no article again: the calls about it are
\* bounded by how often one collection may list it, by that much again for each run that
\* was told not to resume, and by two for each run that was stopped.
THEOREM RepeatsNeedStops == Spec => []CallsAreBounded
<1>1. LabelInv /\ LinesInv /\ CallsInv => CallsAreBounded
  <2> SUFFICES ASSUME LabelInv, LinesInv, CallsInv, NEW a \in Articles
               PROVE  calls[a] <= PerSite * Cardinality({i \in DOMAIN Sites : a \in Sites[i]})
                                          * (1 + run.fresh) + 2 * stopped
    BY DEF CallsAreBounded
  <2> DEFINE lines == Cardinality(LinesOf(a))
             bound == PerSite * Cardinality({i \in DOMAIN Sites : a \in Sites[i]})
                              * (1 + run.fresh)
  <2>1. lines <= bound
    BY DEF LinesInv, LabelledOnce
  <2>2. calls[a] + (IF tail # Null THEN 1 ELSE 0) <= lines + 2 * stopped
    BY DEF CallsInv
  <2>3. calls[a] \in Nat /\ stopped \in Nat /\ lines \in Nat
    BY LinesOfTypes DEF LabelInv, TypeOK
  <2>4. bound \in Nat
    <3> DEFINE sites == Cardinality({i \in DOMAIN Sites : a \in Sites[i]})
    <3>1. DOMAIN Sites = 1..Len(Sites) /\ Len(Sites) \in Nat
      BY LabelAssumption
    <3>2. /\ IsFiniteSet(1..Len(Sites))
          /\ {i \in DOMAIN Sites : a \in Sites[i]} \in SUBSET (1..Len(Sites))
      BY <3>1, FS_Interval
    <3>3. sites \in Nat
      BY <3>2, FS_Subset, FS_CardinalityType
    <3>4. run.fresh \in Nat /\ PerSite \in Nat
      BY LinesTypes, LabelAssumption
    <3> HIDE DEF sites
    <3>5. PerSite * sites \in Nat
      BY <3>3, <3>4
    <3> DEFINE once == PerSite * sites
    <3> HIDE DEF once
    <3>6. once * (1 + run.fresh) \in Nat
      BY <3>4, <3>5 DEF once
    <3> QED BY <3>6 DEF once, sites
  <2> HIDE DEF lines, bound
  <2>5. calls[a] <= bound + 2 * stopped
    BY <2>1, <2>2, <2>3, <2>4
  <2> QED BY <2>5 DEF bound
<1> QED BY <1>1, LinesInit, LinesStep, CallsInit, CallsStep, LabelInvariant, PTL DEF Spec
===============================================================================
