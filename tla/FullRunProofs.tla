----------------------------- MODULE FullRunProofs -----------------------------
(***************************************************************************)
(* What FullRun and BenchmarkRun promise, for every list of cases, every   *)
(* matrix, every plan and every bound: that the types are kept, that a     *)
(* case starts and runs under control, that the list of the panel tells    *)
(* the truth, and that the report on disk is whole.                        *)
(*                                                                         *)
(* The inductive invariant IInv has four parts.  TypeInv gives the types.  *)
(* QueueInv says where the cases are: the first n have left the queue, and *)
(* each of them was answered or is running.  ReportInv follows the text of *)
(* the report from the buffer through the chain into the file: its pieces  *)
(* share no chunk, each carries the tail that closes it, and together they *)
(* hold a chunk for whatever happened and no other.  PanelInv ties the     *)
(* list of the panel to the jobs.                                          *)
(***************************************************************************)
EXTENDS FullRun, FiniteSetTheorems, SequenceTheorems, TLAPS

Kinds == {"header", "begin", "result", "end", "footer"}
Words == [k : Kinds, m : Nat, x : Range(TestCases) \cup Nat]
Tails == {"no mode", "between modes", "no result", "results"}
Blocks == [text : Seq(Words), tail : Tails, step : {"write", "publish"}]
Calls == [case : Range(TestCases), at : {"engine", "report"}, due : Nat]
Heads == [mode : Nat, firstMode : BOOLEAN, firstResult : BOOLEAN]
Files == [working : Seq(Words), partial : [text : Seq(Words), tail : Tails \cup {"none"}],
          final : Seq(Words)]
Stages == Ends \cup {"idle", "warmup", "begin", "cases", "end", "unlink", "abort"}
Before == {"idle", "warmup"}
InMode == {"begin", "cases", "end"}

RunTypes ==
  /\ stage \in Stages /\ outcome \in {"none", "ok", "cancelled", "failed"}
  /\ modes \in Seq(Range(modes)) /\ at \in 0 .. Len(modes)
  /\ control \in [paused : BOOLEAN, limit : 1 .. MaxStreams]
  /\ queue \in [waiting : Seq(Range(TestCases)), attached : BOOLEAN]
  /\ active \in SUBSET Calls /\ IsFiniteSet(active)
  /\ {aborted, failed, broken} \subseteq BOOLEAN
  /\ rag \in {UserSettings, FileSettings} \cup DOMAIN modes
  /\ answered \in SUBSET (Nat \X Range(TestCases)) /\ IsFiniteSet(answered)
  /\ stage \in Before => at = 0 /\ rag \in {UserSettings, FileSettings}
  /\ stage \in {"ok", "cancelled", "failed", "abort"} => rag \in {UserSettings, FileSettings}
  /\ stage \in InMode => at > 0
  /\ stage = "abort" => outcome \in {"cancelled", "failed"}

ReportTypes ==
  /\ sched \in Nat /\ done \in Nat /\ due \in 0 .. sched
  /\ fresh \in 0 .. BatchSize - 1 /\ head \in Heads
  /\ buf \in Seq(Words) /\ chain \in Seq(Blocks) /\ disk \in Files
  /\ stage # "dead" /\ ~broken => sched = done + Len(chain)
  /\ stage # "dead" /\ broken => done < sched /\ chain = <<>>
  /\ stage \in Before => sched = 0 /\ chain = <<>> /\ buf = <<>> /\ fresh = 0

BenchStep ==
  \/ RunStep \/ CaseStep \/ ReportStep \/ DiskFails \/ Reload \/ Crash
  \/ TestsPause \/ (\E n \in 1 .. MaxStreams : TestsResume(n)) \/ JobCancel
  \/ (\E over \in Overrides, n \in 1 .. MaxStreams : TestsRun(over, n))
  \/ UNCHANGED benchVars

-----------------------------------------------------------------------------
\* The cases are a list that is not empty, and the bounds are positive.
LEMMA CasesAreListed ==
  /\ TestCases \in Seq(Range(TestCases)) /\ Len(TestCases) \in Nat \ {0}
  /\ DOMAIN TestCases = 1 .. Len(TestCases)
  /\ \A i \in 1 .. Len(TestCases) : TestCases[i] \in Range(TestCases)
  /\ BatchSize \in Nat \ {0} /\ MaxStreams \in Nat \ {0}
<1>1. TestCases \in Seq(Range(TestCases)) /\ TestCases # <<>> /\ BatchSize \in Nat \ {0} /\ MaxStreams \in Nat \ {0}
  BY BenchmarkAssumption
<1>2. Len(TestCases) \in Nat \ {0} /\ DOMAIN TestCases = 1 .. Len(TestCases)
  BY <1>1, EmptySeq, LenProperties
<1> QED BY <1>1, <1>2, ElementOfSeq

\* The plan is a list of steps.
LEMMA StepsAreListed ==
  /\ Plan \in Seq({"pipeline", "tests"}) /\ Len(Plan) \in Nat \ {0}
  /\ Steps = 1 .. Len(Plan) /\ 1 \in Steps
  /\ \A i \in Steps : Plan[i] \in {"pipeline", "tests"}
<1>1. Plan \in Seq({"pipeline", "tests"}) /\ Plan # <<>>
  BY PlanAssumption
<1>2. Len(Plan) \in Nat \ {0} /\ DOMAIN Plan = 1 .. Len(Plan)
  BY <1>1, EmptySeq, LenProperties
<1>3. Steps = 1 .. Len(Plan)
  BY <1>2 DEF Steps
<1>4. \A i \in Steps : Plan[i] \in {"pipeline", "tests"}
  BY <1>1, <1>3, ElementOfSeq
<1>5. 1 \in Steps
  BY <1>2, <1>3
<1> QED BY <1>1, <1>2, <1>3, <1>4, <1>5, Zenon

\* A list has finitely many elements.
LEMMA RangeIsFinite ==
  ASSUME NEW S, NEW s \in Seq(S)
  PROVE  IsFiniteSet(Range(s))
<1>1. Range(s) = {s[i] : i \in 1 .. Len(s)} /\ Len(s) \in Nat
  BY RangeEquality, LenProperties
<1>2. IsFiniteSet(1 .. Len(s))
  BY <1>1, FS_Interval
<1>3. s \in [1 .. Len(s) -> Range(s)] /\ s \in Surjection(1 .. Len(s), Range(s))
  BY <1>1, LenProperties DEF Surjection, Range
<1> QED BY <1>2, <1>3, FS_Surjection

\* A finite set is listed without repetition.
LEMMA ListOfSet ==
  ASSUME NEW S, IsFiniteSet(S)
  PROVE  SetToSeq(S) \in Seq(S) /\ Len(SetToSeq(S)) = Cardinality(S)
<1> DEFINE n == Cardinality(S)
<1>1. n \in Nat /\ ExistsBijection(1 .. n, S)
  BY FS_CardinalityType
<1>2. PICK f \in Bijection(1 .. n, S) : TRUE
  BY <1>1 DEF ExistsBijection
<1>3. f \in [1 .. n -> S] /\ IsInjective(f)
  BY <1>2 DEF Bijection, Injection
<1>4. SetToSeq(S) \in [1 .. n -> S]
  BY <1>3 DEF SetToSeq
<1> QED BY <1>1, <1>4

\* The modes of a run are a finite list, whatever lists the form names.
LEMMA ModesAreListed ==
  ASSUME NEW axes, \A a \in AxisNames : axes[a] \in Seq(Range(axes[a]))
  PROVE  BuildModes(axes) \in Seq(Range(BuildModes(axes)))
<1> DEFINE U == UNION {Known[a] : a \in Multiplied}
           S == {f \in [Multiplied -> U] : \A a \in Multiplied : f[a] \in Range(axes[a])}
           V == UNION {Range(axes[a]) : a \in Multiplied}
           W == SUBSET (Multiplied \X V)
           g == [f \in S |-> {<<a, f[a]>> : a \in Multiplied}]
<1>1. IsFiniteSet(Multiplied) /\ Multiplied \subseteq AxisNames
  BY BenchmarkAssumption, FS_Subset
<1>2. IsFiniteSet({Range(axes[a]) : a \in Multiplied})
  <2> DEFINE R == [a \in Multiplied |-> Range(axes[a])]
             T == {Range(axes[a]) : a \in Multiplied}
  <2>1. R \in Surjection(Multiplied, T)
    BY DEF Surjection
  <2> QED BY <1>1, <2>1, FS_Surjection
<1>3. \A T \in {Range(axes[a]) : a \in Multiplied} : IsFiniteSet(T)
  BY <1>1, RangeIsFinite
<1>4. IsFiniteSet(V)
  BY <1>2, <1>3, FS_UNION
<1>5. IsFiniteSet(W)
  BY <1>1, <1>4, FS_Product, FS_SUBSET
<1>6. g \in [S -> W]
  <2>1. ASSUME NEW f \in S, NEW a \in Multiplied
        PROVE  <<a, f[a]>> \in Multiplied \X V
    BY <2>1
  <2> QED BY <2>1
<1>7. ASSUME NEW f \in S, NEW h \in S, g[f] = g[h]
      PROVE  f = h
  <2>1. ASSUME NEW a \in Multiplied
        PROVE  f[a] = h[a]
    <3>1. <<a, f[a]>> \in g[f] /\ g[h] = {<<b, h[b]>> : b \in Multiplied}
      OBVIOUS
    <3>2. PICK b \in Multiplied : <<a, f[a]>> = <<b, h[b]>>
      BY <3>1, <1>7
    <3> QED BY <3>2
  <2>2. f \in [Multiplied -> U] /\ h \in [Multiplied -> U]
    OBVIOUS
  <2> QED BY <2>1, <2>2
<1>8. g \in Injection(S, W)
  <2>1. DOMAIN g = S
    OBVIOUS
  <2> QED BY <1>6, <1>7, <2>1 DEF Injection, IsInjective
<1>9. IsFiniteSet(S)
  BY <1>5, <1>8, FS_Injection
<1>10. BuildModes(axes) = SetToSeq(S)
  BY DEF BuildModes
<1> HIDE DEF S
<1> QED BY <1>9, <1>10, ListOfSet, SeqOfRange

\* So are those of a run started with the axes of the form.
LEMMA ModesOfTheForm ==
  ASSUME NEW over \in Overrides, NEW n \in 1 .. MaxStreams, TestsRun(over, n)
  PROVE  modes' \in Seq(Range(modes'))
<1>1. CASE AxesFit(ResolveAxes(over))
  <2>1. \A a \in AxisNames : ResolveAxes(over)[a] \in Seq(Range(ResolveAxes(over)[a]))
    <3>1. \A a \in AxisNames : ConfigAxes[a] \in Seq(Range(ConfigAxes[a]))
      BY BenchmarkAssumption
    <3>2. \A a \in DOMAIN over : over[a] \in Seq(Range(over[a]))
      BY PlanAssumption
    <3>3. ASSUME NEW a \in AxisNames
          PROVE  ResolveAxes(over)[a] = IF a \in DOMAIN over THEN over[a] ELSE ConfigAxes[a]
      BY DEF ResolveAxes
    <3> QED BY <3>1, <3>2, <3>3
  <2>2. modes' = BuildModes(ResolveAxes(over))
    BY <1>1 DEF TestsRun
  <2>3. PICK axes : axes = ResolveAxes(over)
    OBVIOUS
  <2>4. BuildModes(axes) \in Seq(Range(BuildModes(axes)))
    BY <2>1, <2>3, ModesAreListed
  <2> QED BY <2>2, <2>3, <2>4
<1>2. CASE ~AxesFit(ResolveAxes(over))
  <2>1. modes' = <<>>
    BY <1>2 DEF TestsRun
  <2> QED BY <2>1
<1> QED BY <1>1, <1>2

\* What is pushed stays text, and is counted as a block when it is cut off.
LEMMA PushedTypes ==
  ASSUME NEW text \in Seq(Words), NEW h \in Heads, NEW force \in BOOLEAN, NEW results \in Nat,
         text = <<>> => results < BatchSize,
         chain \in Seq(Blocks), sched \in Nat, done \in Nat,
         Pushed(text, h, force, results)
  PROVE  /\ chain' \in Seq(Blocks) /\ sched' \in Nat /\ sched' >= sched
         /\ buf' \in Seq(Words) /\ fresh' \in 0 .. BatchSize - 1
         /\ ~broken => sched' - sched = Len(chain') - Len(chain)
         /\ broken => chain' = chain
         /\ force => buf' = <<>>
<1> DEFINE b == [text |-> text, tail |-> SnapshotTail(h), step |-> "write"]
<1>1. b \in Blocks
  BY DEF Blocks, SnapshotTail, Tails
<1>2. BatchSize \in Nat \ {0}
  BY CasesAreListed
<1> HIDE DEF b
<1>3. /\ Append(chain, b) \in Seq(Blocks) /\ Len(Append(chain, b)) = Len(chain) + 1 /\ Len(chain) \in Nat
  BY <1>1, AppendProperties, LenProperties
<1>4. CASE text # <<>> /\ (force \/ results >= BatchSize)
  <2>1. /\ chain' = IF broken THEN chain ELSE Append(chain, b)
        /\ sched' = sched + 1 /\ buf' = <<>> /\ fresh' = 0
    BY <1>4 DEF Pushed, b
  <2> QED BY <1>2, <1>3, <2>1
<1>5. CASE ~(text # <<>> /\ (force \/ results >= BatchSize))
  <2>1. buf' = text /\ fresh' = results /\ chain' = chain /\ sched' = sched
    BY <1>5 DEF Pushed
  <2> QED BY <1>2, <1>3, <1>5, <2>1
<1> QED BY <1>4, <1>5

\* The benchmark has its types at first.
LEMMA BenchTypesInit == InitBench => RunTypes /\ ReportTypes
<1> SUFFICES ASSUME InitBench PROVE RunTypes /\ ReportTypes
  OBVIOUS
<1>1. RunTypes
  <2>1. control \in [paused : BOOLEAN, limit : 1 .. MaxStreams]
    BY CasesAreListed DEF InitBench
  <2>2. modes = <<>> /\ <<>> \in Seq(Range(modes)) /\ Len(modes) = 0
    BY DEF InitBench
  <2>3. active = {} /\ answered = {} /\ IsFiniteSet({})
    BY FS_EmptySet DEF InitBench
  <2>4. queue \in [waiting : Seq(Range(TestCases)), attached : BOOLEAN]
    BY DEF InitBench, NewQueue
  <2>5. stage = "idle" /\ outcome = "none" /\ at = 0 /\ rag = UserSettings /\ {aborted, failed, broken} \subseteq BOOLEAN
    BY DEF InitBench
  <2>6. active \in SUBSET Calls /\ answered \in SUBSET (Nat \X Range(TestCases)) /\ IsFiniteSet(active) /\ IsFiniteSet(answered)
    BY <2>3
  <2>7. stage \in Stages /\ stage \notin InMode /\ at \in 0 .. Len(modes)
    BY <2>2, <2>5 DEF Stages, InMode
  <2>8. modes \in Seq(Range(modes))
    BY <2>2
  <2> QED BY <2>1, <2>4, <2>5, <2>6, <2>7, <2>8 DEF RunTypes
<1>2. ReportTypes
  <2>1. disk \in Files
    BY DEF InitBench, NewFiles, Files, NoFile, NoSnapshot
  <2>2. fresh \in 0 .. BatchSize - 1 /\ head \in Heads
    BY CasesAreListed DEF InitBench, NewHead, Heads
  <2>3. chain = <<>> /\ buf = <<>> /\ Len(chain) = 0 /\ <<>> \in Seq(Blocks) /\ <<>> \in Seq(Words)
    BY DEF InitBench
  <2> QED BY <2>1, <2>2, <2>3 DEF InitBench, ReportTypes
<1> QED BY <1>1, <1>2

\* The queue starts what there is room for, from its head.
LEMMA StartsTypes ==
  ASSUME NEW waiting \in Seq(Range(TestCases)), NEW running \in SUBSET Calls, IsFiniteSet(running),
         NEW c \in [paused : BOOLEAN, limit : 1 .. MaxStreams]
  PROVE  LET s == Starts(waiting, running, c)
         IN  /\ s.waiting \in Seq(Range(TestCases))
             /\ s.active \in SUBSET Calls /\ IsFiniteSet(s.active)
             /\ \E n \in 0 .. Len(waiting) :
                  /\ s.waiting = SubSeq(waiting, n + 1, Len(waiting))
                  /\ s.active = running \cup {[case |-> waiting[i], at |-> "engine", due |-> 0] : i \in 1 .. n}
                  /\ n > 0 => ~c.paused /\ Cardinality(running) + n <= c.limit
                  /\ Cardinality(s.active) <= Cardinality(running) + n
<1> DEFINE room == c.limit - Cardinality(running)
           n == IF c.paused \/ room < 0 THEN 0
                ELSE IF room < Len(waiting) THEN room ELSE Len(waiting)
           new == {[case |-> waiting[i], at |-> "engine", due |-> 0] : i \in 1 .. n}
<1>1. Len(waiting) \in Nat /\ Cardinality(running) \in Nat /\ c.limit \in Nat
  BY LenProperties, FS_CardinalityType, CasesAreListed
<1>2. n \in 0 .. Len(waiting) /\ (n > 0 => ~c.paused /\ Cardinality(running) + n <= c.limit)
  BY <1>1
<1>3. Starts(waiting, running, c) = [waiting |-> SubSeq(waiting, n + 1, Len(waiting)), active |-> running \cup new]
  BY DEF Starts
<1> HIDE DEF n
<1>4. \A i \in 1 .. n : waiting[i] \in Range(TestCases)
  BY <1>1, <1>2, ElementOfSeq
<1>5. new \in SUBSET Calls
  BY <1>4 DEF Calls
<1>6. IsFiniteSet(new) /\ Cardinality(new) <= n /\ Cardinality(new) \in Nat
  <2> DEFINE f == [i \in 1 .. n |-> [case |-> waiting[i], at |-> "engine", due |-> 0]]
  <2>1. f \in Surjection(1 .. n, new)
    BY DEF Surjection
  <2>2. IsFiniteSet(1 .. n) /\ Cardinality(1 .. n) = n
    BY <1>1, <1>2, FS_Interval
  <2> HIDE DEF f, new
  <2> QED BY <2>1, <2>2, FS_Surjection, FS_CardinalityType
<1>7. IsFiniteSet(running \cup new) /\ Cardinality(running \cup new) <= Cardinality(running) + n
  <2>1. IsFiniteSet(running \cap new)
    BY FS_Intersection
  <2>2. Cardinality(running \cap new) \in Nat
    BY <2>1, FS_CardinalityType
  <2>3. IsFiniteSet(running \cup new) /\ Cardinality(running \cup new)
          = Cardinality(running) + Cardinality(new) - Cardinality(running \cap new)
    BY <1>6, FS_Union
  <2> QED BY <1>1, <1>2, <1>6, <2>2, <2>3
<1>8. SubSeq(waiting, n + 1, Len(waiting)) \in Seq(Range(TestCases))
  BY <1>1, <1>2, SubSeqProperties, ElementOfSeq
<1> DEFINE s == Starts(waiting, running, c)
<1>9. s.waiting = SubSeq(waiting, n + 1, Len(waiting)) /\ s.active = running \cup new
  <2> HIDE DEF new
  <2>1. s = [waiting |-> SubSeq(waiting, n + 1, Len(waiting)), active |-> running \cup new]
    BY <1>3
  <2> HIDE DEF s
  <2> QED BY <2>1
<1> HIDE DEF s
<1>10. \E k \in 0 .. Len(waiting) :
                  /\ s.waiting = SubSeq(waiting, k + 1, Len(waiting))
                  /\ s.active = running \cup {[case |-> waiting[i], at |-> "engine", due |-> 0] : i \in 1 .. k}
                  /\ k > 0 => ~c.paused /\ Cardinality(running) + k <= c.limit
                  /\ Cardinality(s.active) <= Cardinality(running) + k
  <2> USE <1>2
  <2> WITNESS n \in 0 .. Len(waiting)
  <2>1. Cardinality(s.active) <= Cardinality(running) + n
    BY <1>7, <1>9
  <2> QED BY <1>2, <1>9, <2>1
<1>11. s.waiting \in Seq(Range(TestCases)) /\ s.active \in SUBSET Calls /\ IsFiniteSet(s.active)
  <2> HIDE DEF new
  <2> QED BY <1>5, <1>7, <1>8, <1>9
<1> QED BY <1>10, <1>11 DEF s

-----------------------------------------------------------------------------
(* What the steps of the run have to say of the variables of the run       *)

\* The finally of runRagTests leaves a run that is over, or one whose report is
\* put away first, and the settings of the user.
LEMMA FinallyTypes ==
  ASSUME RunTypes, ReportTypes, NEW how \in {"ok", "cancelled", "failed"}, Finally(how),
         how # "cancelled" \/ stage # "idle"
  PROVE  /\ stage' \in {"ok", "cancelled", "failed", "abort"} /\ outcome' = how /\ rag' = UserSettings
         /\ stage' = how \/ (stage' = "abort" /\ how # "ok" /\ due' = sched' /\ buf' = <<>>)
         /\ stage' = how => UNCHANGED <<buf, fresh, chain, sched, due>>
         /\ chain' \in Seq(Blocks) /\ sched' \in Nat /\ sched' >= sched /\ due' \in 0 .. sched'
         /\ buf' \in Seq(Words) /\ fresh' \in 0 .. BatchSize - 1
         /\ ~broken => sched' - sched = Len(chain') - Len(chain)
         /\ broken => chain' = chain
<1>1. CASE how = "ok" \/ sched = 0 \/ disk.final # NoFile
  <2>1. stage' = how /\ UNCHANGED <<buf, fresh, chain, sched, due>> /\ rag' = UserSettings /\ outcome' = how
    BY <1>1 DEF Finally
  <2>2. Len(chain) \in Nat
    BY LenProperties DEF ReportTypes
  <2> QED BY <2>1, <2>2 DEF ReportTypes
<1>2. CASE ~(how = "ok" \/ sched = 0 \/ disk.final # NoFile)
  <2>1. /\ stage' = "abort" /\ Pushed(buf, head, TRUE, fresh) /\ due' = sched'
        /\ rag' = UserSettings /\ outcome' = how
    BY <1>2 DEF Finally
  <2>2. fresh \in Nat /\ fresh < BatchSize
    BY CasesAreListed DEF ReportTypes
  <2>3. /\ chain' \in Seq(Blocks) /\ sched' \in Nat /\ sched' >= sched
        /\ buf' \in Seq(Words) /\ fresh' \in 0 .. BatchSize - 1
        /\ ~broken => sched' - sched = Len(chain') - Len(chain)
        /\ broken => chain' = chain
        /\ buf' = <<>>
    BY <2>1, <2>2, PushedTypes DEF ReportTypes
  <2> QED BY <1>2, <2>1, <2>3
<1> QED BY <1>1, <1>2

\* A chunk is a word of the report.
LEMMA WordTypes ==
  /\ \A k \in Kinds, m \in Nat, x \in Range(TestCases) \cup Nat : Chunk(k, m, x) \in Words
  /\ HeaderChunk \in Words
<1> QED BY DEF Chunk, Words, HeaderChunk, Kinds

\* What is written to one of the files leaves the others alone.
LEMMA FileTypes ==
  ASSUME disk \in Files
  PROVE  /\ disk.working \in Seq(Words) /\ disk.final \in Seq(Words)
         /\ disk.partial \in [text : Seq(Words), tail : Tails \cup {"none"}]
         /\ NoFile \in Seq(Words)
         /\ \A w \in Seq(Words) : LET d == [disk EXCEPT !.working = w] IN
              d \in Files /\ d.working = w /\ d.partial = disk.partial /\ d.final = disk.final
         /\ \A p \in [text : Seq(Words), tail : Tails \cup {"none"}] : LET d == [disk EXCEPT !.partial = p] IN
              d \in Files /\ d.working = disk.working /\ d.partial = p /\ d.final = disk.final
         /\ \A f \in Seq(Words) : LET d == [disk EXCEPT !.final = f, !.working = NoFile] IN
              d \in Files /\ d.working = NoFile /\ d.partial = disk.partial /\ d.final = f
         /\ NoSnapshot \in [text : Seq(Words), tail : Tails \cup {"none"}]
<1> DEFINE P == [text : Seq(Words), tail : Tails \cup {"none"}]
<1> DEFINE W == Seq(Words)
<1>1. NoSnapshot \in P /\ NoFile \in W
  BY DEF NoSnapshot, NoFile
<1>2. Files = [working : W, partial : P, final : W]
  BY DEF Files
<1> HIDE DEF P, W
<1>3. \A w \in W : LET d == [disk EXCEPT !.working = w] IN
        d \in Files /\ d.working = w /\ d.partial = disk.partial /\ d.final = disk.final
  BY <1>2
<1>4. \A p \in P : LET d == [disk EXCEPT !.partial = p] IN
        d \in Files /\ d.working = disk.working /\ d.partial = p /\ d.final = disk.final
  BY <1>2
<1>5. \A f \in W : LET d == [disk EXCEPT !.final = f, !.working = NoFile] IN
        d \in Files /\ d.working = NoFile /\ d.partial = disk.partial /\ d.final = f
  BY <1>1, <1>2
<1> QED BY <1>1, <1>2, <1>3, <1>4, <1>5 DEF P, W

\* The results of a mode can be counted.
LEMMA CountTypes ==
  ASSUME RunTypes
  PROVE  \A m : LET S == {r \in answered : r[1] = m} IN IsFiniteSet(S) /\ Cardinality(S) \in Nat
<1> TAKE m
<1> DEFINE S == {r \in answered : r[1] = m}
<1>1. IsFiniteSet(S)
  BY FS_Subset DEF RunTypes
<1> QED BY <1>1, FS_CardinalityType

\* How a step of the run disturbs the report, and how many blocks it adds.
ReportGrows ==
  /\ chain' \in Seq(Blocks) /\ sched' \in Nat /\ sched' >= sched /\ due' \in 0 .. sched'
  /\ buf' \in Seq(Words) /\ fresh' \in 0 .. BatchSize - 1
  /\ ~broken => sched' - sched = Len(chain') - Len(chain)
  /\ broken => chain' = chain
  /\ head' \in Heads /\ disk' \in Files
  /\ done' = done /\ broken' = broken
  /\ stage' \notin Before /\ stage \notin Ends

\* A step that adds blocks keeps the count of them.
LEMMA GrownTypes ==
  ASSUME ReportTypes, ReportGrows, broken \in BOOLEAN
  PROVE  ReportTypes'
<1>1. Len(chain) \in Nat /\ Len(chain') \in Nat
  BY LenProperties DEF ReportTypes, ReportGrows
<1>2. stage # "dead" /\ stage' \notin Before
  BY DEF Ends, ReportGrows
<1> QED BY <1>1, <1>2 DEF ReportTypes, ReportGrows

\* A step of runRagTests keeps the types.
LEMMA RunKeepsTypes ==
  ASSUME RunTypes, ReportTypes, RunStep
  PROVE  RunTypes' /\ ReportTypes'
<1> USE DEF queueVars, reportVars
<1>0. Len(modes) \in Nat /\ DOMAIN modes = 1 .. Len(modes)
  BY LenProperties DEF RunTypes
<1>1. CASE Warmed
  <2>1. /\ stage = "warmup" /\ stage' = "begin" /\ at' = 1 /\ modes # <<>> /\ sched' = 2 /\ due' = 2
        /\ UNCHANGED <<outcome, modes, control, queue, active, aborted, failed, rag, buf, fresh, done, broken, disk, answered>>
        /\ head' = [mode |-> 1, firstMode |-> FALSE, firstResult |-> TRUE]
    BY <1>1 DEF Warmed
  <2>2. 1 <= Len(modes)
    BY <1>0, <2>1, EmptySeq DEF RunTypes
  <2>3. RunTypes'
    BY <1>0, <2>1, <2>2 DEF RunTypes, Stages, InMode, Before
  <2> DEFINE b1 == [text |-> <<HeaderChunk>>, tail |-> SnapshotTail(head), step |-> "write"]
             b2 == [text |-> <<Chunk("begin", 1, 0)>>, tail |-> SnapshotTail(head'), step |-> "write"]
  <2>4. b1 \in Blocks /\ b2 \in Blocks
    BY WordTypes DEF Blocks, SnapshotTail, Tails, Kinds
  <2>5. chain' = <<b1, b2>>
    BY <1>1 DEF Warmed
  <2> HIDE DEF b1, b2
  <2>6. chain' \in Seq(Blocks) /\ Len(chain') = 2
    BY <2>4, <2>5
  <2>7. sched = 0 /\ done = 0 /\ ~broken
    <3>1. sched = 0 /\ chain = <<>> /\ Len(chain) = 0 /\ done \in Nat
      BY <2>1 DEF ReportTypes, Before
    <3>2. ~broken
      BY <2>1, <3>1 DEF ReportTypes
    <3> QED BY <2>1, <3>1, <3>2 DEF ReportTypes
  <2>8. head' \in Heads
    BY <2>1 DEF Heads
  <2>9. stage' \notin Before
    BY <2>1 DEF Before
  <2>10. ReportTypes'
    BY <2>1, <2>6, <2>7, <2>8, <2>9 DEF ReportTypes
  <2> QED BY <2>3, <2>10
<1>2. ASSUME NEW how \in {"ok", "cancelled", "failed"}, Finally(how),
             UNCHANGED <<modes, at, control, active, aborted, failed, head, done, broken, answered>>,
             queue' \in [waiting : Seq(Range(TestCases)), attached : BOOLEAN],
             disk' \in Files, stage \notin Ends \cup {"idle"}
      PROVE  RunTypes' /\ ReportTypes'
  <2>1. /\ stage' \in {"ok", "cancelled", "failed", "abort"} /\ outcome' = how /\ rag' = UserSettings
        /\ stage' = "abort" => how # "ok"
        /\ chain' \in Seq(Blocks) /\ sched' \in Nat /\ sched' >= sched /\ due' \in 0 .. sched'
        /\ buf' \in Seq(Words) /\ fresh' \in 0 .. BatchSize - 1
        /\ ~broken => sched' - sched = Len(chain') - Len(chain)
        /\ broken => chain' = chain
    BY <1>2, FinallyTypes
  <2>2. RunTypes'
    BY <1>2, <2>1 DEF RunTypes, Stages, Ends, InMode, Before
  <2>3. stage' \notin Before /\ head \in Heads
    BY <2>1 DEF Before, ReportTypes
  <2>4. ReportGrows
    BY <1>2, <2>1, <2>3 DEF ReportGrows
  <2> QED BY <2>2, <2>4, GrownTypes DEF RunTypes
<1>3. CASE WarmupFails \/ ReportFails
  BY <1>2, <1>3 DEF WarmupFails, ReportFails, ReportTypes, RunTypes, Ends
<1>4. CASE QueueThrows
  <2>1. queue' \in [waiting : Seq(Range(TestCases)), attached : BOOLEAN]
    BY <1>4 DEF QueueThrows, Detached, NewQueue
  <2> QED BY <1>2, <1>4, <2>1 DEF QueueThrows, ReportTypes, Ends
<1>5. CASE Unlinks
  <2>1. disk' \in Files
    BY <1>5, FileTypes DEF Unlinks, ReportTypes
  <2> QED BY <1>2, <1>5, <2>1 DEF Unlinks, RunTypes, Ends
<1>6. CASE ModeBegins
  <2>1. /\ stage = "begin" /\ stage' = "cases" /\ rag' = at /\ Attach
        /\ UNCHANGED <<outcome, modes, at, due, control, aborted, failed, head, buf, fresh, chain, sched, done, broken, disk, answered>>
    BY <1>6 DEF ModeBegins
  <2>2. at > 0 /\ at \in DOMAIN modes
    BY <1>0, <2>1 DEF RunTypes, InMode
  <2>3. /\ active' \in SUBSET Calls /\ IsFiniteSet(active')
        /\ queue' \in [waiting : Seq(Range(TestCases)), attached : BOOLEAN]
    <3>1. {} \in SUBSET Calls /\ IsFiniteSet({}) /\ TestCases \in Seq(Range(TestCases))
      BY FS_EmptySet, CasesAreListed
    <3>2. LET s == Starts(TestCases, {}, control)
          IN s.waiting \in Seq(Range(TestCases)) /\ s.active \in SUBSET Calls /\ IsFiniteSet(s.active)
      BY <3>1, StartsTypes DEF RunTypes
    <3> QED BY <2>1, <3>2 DEF Attach
  <2>4. RunTypes'
    BY <2>1, <2>2, <2>3 DEF RunTypes, Stages, InMode, Before
  <2>5. ReportTypes'
    BY <2>1 DEF ReportTypes, Before
  <2> QED BY <2>4, <2>5
<1>7. CASE ModeEnds
  <2>1. /\ stage = "cases" /\ stage' = "end" /\ head' = [head EXCEPT !.mode = 0] /\ Detached /\ due' = sched'
        /\ UNCHANGED <<outcome, modes, at, control, active, aborted, failed, rag, done, broken, disk, answered>>
    BY <1>7 DEF ModeEnds
  <2>2. queue' \in [waiting : Seq(Range(TestCases)), attached : BOOLEAN]
    BY <2>1 DEF Detached, NewQueue
  <2>3. RunTypes'
    BY <2>1, <2>2 DEF RunTypes, Stages, InMode, Before
  <2>4. PICK n : n = Cardinality({r \in answered : r[1] = at})
    OBVIOUS
  <2>5. Chunk("end", at, n) \in Words
    <3>1. n \in Nat
      BY <2>4, CountTypes
    <3>2. at \in Nat /\ "end" \in Kinds
      BY <1>0 DEF RunTypes, Kinds
    <3> QED BY <3>1, <3>2, WordTypes
  <2>6. PICK h : h = head'
    OBVIOUS
  <2>7. h \in Heads
    BY <2>1, <2>6 DEF ReportTypes, Heads
  <2>8. PICK text : text = Append(buf, Chunk("end", at, n))
    OBVIOUS
  <2>9. text \in Seq(Words) /\ text # <<>>
    BY <2>5, <2>8, AppendProperties DEF ReportTypes
  <2>10. Pushed(text, h, TRUE, fresh)
    BY <1>7, <2>4, <2>6, <2>8 DEF ModeEnds
  <2>11. fresh \in Nat
    BY CasesAreListed DEF ReportTypes
  <2>12. /\ chain' \in Seq(Blocks) /\ sched' \in Nat /\ sched' >= sched
         /\ buf' \in Seq(Words) /\ fresh' \in 0 .. BatchSize - 1
         /\ ~broken => sched' - sched = Len(chain') - Len(chain)
         /\ broken => chain' = chain
    BY <2>7, <2>9, <2>10, <2>11, PushedTypes DEF ReportTypes
  <2>13. ReportGrows
    BY <2>1, <2>6, <2>7, <2>12 DEF ReportGrows, ReportTypes, Before, Ends
  <2> QED BY <2>3, <2>13, GrownTypes DEF RunTypes
<1>8. CASE NextMode
  <2>1. /\ stage = "end" /\ at < Len(modes) /\ stage' = "begin" /\ at' = at + 1 /\ due' = sched'
        /\ head' = [mode |-> at + 1, firstMode |-> FALSE, firstResult |-> TRUE]
        /\ UNCHANGED <<outcome, modes, control, queue, active, aborted, failed, rag, done, broken, disk, answered>>
    BY <1>8 DEF NextMode, BeginMode
  <2>2. RunTypes'
    BY <1>0, <2>1 DEF RunTypes, Stages, InMode, Before
  <2>3. Chunk("begin", at + 1, 0) \in Words
    BY WordTypes DEF RunTypes, Kinds
  <2>4. PICK h : h = head'
    OBVIOUS
  <2>5. h \in Heads
    BY <2>1, <2>4 DEF RunTypes, Heads
  <2>6. PICK text : text = Append(buf, Chunk("begin", at + 1, 0))
    OBVIOUS
  <2>7. text \in Seq(Words) /\ text # <<>>
    BY <2>3, <2>6, AppendProperties DEF ReportTypes
  <2>8. Pushed(text, h, TRUE, 0)
    BY <1>8, <2>4, <2>6 DEF NextMode, BeginMode
  <2>9. /\ chain' \in Seq(Blocks) /\ sched' \in Nat /\ sched' >= sched
        /\ buf' \in Seq(Words) /\ fresh' \in 0 .. BatchSize - 1
        /\ ~broken => sched' - sched = Len(chain') - Len(chain)
        /\ broken => chain' = chain
    BY <2>5, <2>7, <2>8, PushedTypes DEF ReportTypes
  <2>10. ReportGrows
    BY <2>1, <2>4, <2>5, <2>9 DEF ReportGrows, ReportTypes, Before, Ends
  <2> QED BY <2>2, <2>10, GrownTypes DEF RunTypes
<1>9. CASE Closes
  <2>1. Append(disk.working, Chunk("footer", 0, 0)) \in Seq(Words)
    BY WordTypes, AppendProperties DEF ReportTypes, Files, Kinds
  <2>2. disk' \in Files
    BY <1>9, <2>1, FileTypes DEF Closes, ReportTypes
  <2>3. RunTypes'
    BY <1>9 DEF Closes, RunTypes, Stages, InMode, Before
  <2>4. ReportTypes'
    BY <1>9, <2>2 DEF Closes, ReportTypes, Before
  <2> QED BY <2>3, <2>4
<1>10. CASE CloseFails \/ UnlinkFails
  BY <1>10 DEF CloseFails, UnlinkFails, RunTypes, ReportTypes, Stages, Ends, InMode, Before
<1>11. CASE PutAway \/ PutAwayFails
  <2>1. disk' \in Files
    BY <1>11, FileTypes DEF PutAway, PutAwayFails, NoFile, ReportTypes
  <2>2. /\ stage = "abort" /\ stage' \in {"cancelled", "failed"}
        /\ UNCHANGED <<outcome, modes, at, due, control, queue, active, aborted, failed, rag, head, buf, fresh, chain, sched, done, broken, answered>>
    BY <1>11 DEF PutAway, PutAwayFails, RunTypes
  <2>3. stage' \in Stages
    BY <2>2 DEF Stages, Ends
  <2> QED BY <2>1, <2>2, <2>3 DEF RunTypes, ReportTypes, Stages, Ends, InMode, Before
<1> QED BY <1>1, <1>3, <1>4, <1>5, <1>6, <1>7, <1>8, <1>9, <1>10, <1>11 DEF RunStep

\* An answered case keeps the types.
LEMMA AnsweredTypes ==
  ASSUME RunTypes, ReportTypes, stage = "cases", NEW c \in active, Answered(c)
  PROVE  RunTypes' /\ ReportTypes'
<1> USE DEF queueVars, reportVars
<1>1. /\ c.at = "engine" /\ answered' = answered \cup {<<at, c.case>>}
      /\ head' = [head EXCEPT !.firstResult = FALSE]
      /\ active' = (active \ {c}) \cup {[c EXCEPT !.at = "report", !.due = sched']}
      /\ UNCHANGED <<stage, outcome, modes, at, due, control, queue, aborted, failed, rag, done, broken, disk>>
  BY DEF Answered
<1>2. at \in Nat /\ c \in Calls /\ c.case \in Range(TestCases)
  BY LenProperties DEF RunTypes, Calls
<1>3. PICK h : h = head'
  OBVIOUS
<1>4. h \in Heads
  BY <1>1, <1>3 DEF ReportTypes, Heads
<1>5. PICK text : text = Append(buf, Chunk("result", at, c.case))
  OBVIOUS
<1>6. Chunk("result", at, c.case) \in Words
  BY <1>2, WordTypes DEF Kinds
<1>7. text \in Seq(Words) /\ text # <<>>
  BY <1>5, <1>6, AppendProperties DEF ReportTypes
<1>8. Pushed(text, h, FALSE, fresh + 1)
  BY <1>3, <1>5 DEF Answered
<1>9. fresh + 1 \in Nat
  BY CasesAreListed DEF ReportTypes
<1>10. /\ chain' \in Seq(Blocks) /\ sched' \in Nat /\ sched' >= sched
       /\ buf' \in Seq(Words) /\ fresh' \in 0 .. BatchSize - 1
       /\ ~broken => sched' - sched = Len(chain') - Len(chain)
       /\ broken => chain' = chain
  BY <1>4, <1>7, <1>8, <1>9, PushedTypes DEF ReportTypes
<1>11. ReportGrows
  BY <1>1, <1>3, <1>4, <1>10 DEF ReportGrows, ReportTypes, Before, Ends
<1>12. [c EXCEPT !.at = "report", !.due = sched'] \in Calls
  BY <1>2, <1>10 DEF Calls
<1>13. active' \in SUBSET Calls /\ IsFiniteSet(active')
  <2>1. IsFiniteSet(active \ {c}) /\ active \ {c} \in SUBSET Calls
    BY FS_RemoveElement DEF RunTypes
  <2> QED BY <1>1, <1>12, <2>1, FS_AddElement
<1>14. answered' \in SUBSET (Nat \X Range(TestCases)) /\ IsFiniteSet(answered')
  <2>1. <<at, c.case>> \in Nat \X Range(TestCases)
    BY <1>2
  <2>2. IsFiniteSet(answered) /\ answered \in SUBSET (Nat \X Range(TestCases))
    BY DEF RunTypes
  <2> QED BY <1>1, <2>1, <2>2, FS_AddElement
<1>15. RunTypes'
  BY <1>1, <1>13, <1>14 DEF RunTypes
<1> QED BY <1>11, <1>15, GrownTypes DEF RunTypes

\* A queue that is emptied stays attached or not.
LEMMA EmptiedQueue ==
  ASSUME queue \in [waiting : Seq(Range(TestCases)), attached : BOOLEAN]
  PROVE  LET q == [queue EXCEPT !.waiting = <<>>] IN
         /\ q \in [waiting : Seq(Range(TestCases)), attached : BOOLEAN]
         /\ q.waiting = <<>> /\ q.attached = queue.attached
<1> DEFINE W == Seq(Range(TestCases))
<1>1. <<>> \in W
  OBVIOUS
<1> HIDE DEF W
<1>2. queue \in [waiting : W, attached : BOOLEAN]
  BY DEF W
<1>3. LET q == [queue EXCEPT !.waiting = <<>>] IN
         /\ q \in [waiting : W, attached : BOOLEAN]
         /\ q.waiting = <<>> /\ q.attached = queue.attached
  BY <1>1, <1>2
<1> QED BY <1>3 DEF W

\* A step of a case keeps the types.
LEMMA CasesKeepTypes ==
  ASSUME RunTypes, ReportTypes, stage = "cases", CaseStep
  PROVE  RunTypes' /\ ReportTypes'
<1> USE DEF queueVars, reportVars
<1>1. PICK c \in active : Answered(c) \/ CaseThrows(c) \/ CaseReturns(c)
  BY DEF CaseStep
<1>2. /\ active \ {c} \in SUBSET Calls /\ IsFiniteSet(active \ {c})
  BY FS_RemoveElement DEF RunTypes
<1>3. LET s == Starts(queue.waiting, active \ {c}, control)
      IN s.waiting \in Seq(Range(TestCases)) /\ s.active \in SUBSET Calls /\ IsFiniteSet(s.active)
  BY <1>2, StartsTypes DEF RunTypes
<1>4. CASE CaseThrows(c)
  <2>1. active' \in SUBSET Calls /\ IsFiniteSet(active')
    BY <1>2, <1>3, <1>4 DEF CaseThrows
  <2>2. queue' \in [waiting : Seq(Range(TestCases)), attached : BOOLEAN]
    BY <1>4, EmptiedQueue DEF CaseThrows, RunTypes
  <2>3. /\ failed' = TRUE
        /\ UNCHANGED <<stage, outcome, modes, at, due, control, aborted, rag, head, buf, fresh, chain, sched, done, broken, disk, answered>>
    BY <1>4 DEF CaseThrows
  <2>4. RunTypes'
    BY <2>1, <2>2, <2>3 DEF RunTypes
  <2> QED BY <2>3, <2>4 DEF ReportTypes
<1>5. CASE CaseReturns(c)
  <2>1. /\ active' = Starts(queue.waiting, active \ {c}, control).active
        /\ queue' = [waiting |-> Starts(queue.waiting, active \ {c}, control).waiting, attached |-> TRUE]
        /\ UNCHANGED <<stage, outcome, modes, at, due, control, aborted, failed, rag, head, buf, fresh, chain, sched, done, broken, disk, answered>>
    BY <1>5 DEF CaseReturns, QueueRuns
  <2>2. active' \in SUBSET Calls /\ IsFiniteSet(active')
        /\ queue' \in [waiting : Seq(Range(TestCases)), attached : BOOLEAN]
    BY <1>3, <2>1
  <2>3. RunTypes'
    BY <2>1, <2>2 DEF RunTypes
  <2> QED BY <2>1, <2>3 DEF ReportTypes
<1> QED BY <1>1, <1>4, <1>5, AnsweredTypes

\* A step of the chain of blocks keeps the types.
LEMMA ChainKeepsTypes ==
  ASSUME RunTypes, ReportTypes, ReportStep \/ DiskFails
  PROVE  RunTypes' /\ ReportTypes'
<1> USE DEF queueVars, reportVars
<1>1. /\ UNCHANGED <<stage, outcome, modes, at, due, control, queue, active, aborted, failed, rag, head, buf, fresh, sched, answered>>
      /\ chain # <<>> /\ broken' \in BOOLEAN
  BY DEF ReportStep, WriteChain, PublishChain, DiskFails, RunTypes
<1>2. RunTypes'
  BY <1>1 DEF RunTypes
<1>3. Head(chain) \in Blocks /\ Tail(chain) \in Seq(Blocks) /\ Len(Tail(chain)) = Len(chain) - 1
      /\ Len(chain) \in Nat \ {0} /\ Head(chain) = chain[1] /\ 1 \in 1 .. Len(chain)
  BY <1>1, HeadTailProperties, EmptySeq DEF ReportTypes
<1>4. stage \notin Before
  BY <1>1 DEF ReportTypes
<1>5. CASE WriteChain
  <2>1. disk.working \o Head(chain).text \in Seq(Words)
    BY <1>3, FileTypes, ConcatProperties DEF ReportTypes, Blocks
  <2>2. disk' \in Files
    BY <1>5, <2>1, FileTypes DEF WriteChain, ReportTypes
  <2>3. [Head(chain) EXCEPT !.step = "publish"] \in Blocks
    BY <1>3 DEF Blocks
  <2>4. chain' = [chain EXCEPT ![1] = [Head(chain) EXCEPT !.step = "publish"]]
    BY <1>3, <1>5 DEF WriteChain
  <2>5. chain' \in Seq(Blocks) /\ Len(chain') = Len(chain)
    BY <1>3, <2>3, <2>4, ExceptSeq DEF ReportTypes
  <2>6. UNCHANGED <<done, broken>>
    BY <1>5 DEF WriteChain
  <2> QED BY <1>1, <1>2, <1>4, <2>2, <2>5, <2>6 DEF ReportTypes
<1>6. CASE PublishChain
  <2>1. [text |-> disk.working, tail |-> Head(chain).tail] \in [text : Seq(Words), tail : Tails \cup {"none"}]
    BY <1>3, FileTypes DEF ReportTypes, Blocks
  <2>2. disk' \in Files
    BY <1>6, <2>1, FileTypes DEF PublishChain, ReportTypes
  <2>3. chain' = Tail(chain) /\ done' = done + 1 /\ UNCHANGED broken
    BY <1>6 DEF PublishChain
  <2>4. stage # "dead" => ~broken
    BY <1>1 DEF ReportTypes
  <2> QED BY <1>1, <1>2, <1>3, <1>4, <2>2, <2>3, <2>4 DEF ReportTypes
<1>7. CASE DiskFails
  <2>1. broken' /\ chain' = <<>> /\ UNCHANGED <<done, disk>>
    BY <1>7 DEF DiskFails
  <2>2. <<>> \in Seq(Blocks)
    OBVIOUS
  <2>3. stage # "dead" => done < sched
    <3>1. stage # "dead" => ~broken
      BY <1>1 DEF ReportTypes
    <3> QED BY <1>3, <3>1 DEF ReportTypes
  <2> QED BY <1>1, <1>2, <1>4, <2>1, <2>2, <2>3 DEF ReportTypes
<1> QED BY <1>5, <1>6, <1>7 DEF ReportStep

\* What comes from outside the run keeps the types: the RPC methods, a reload, a
\* crash, the beginning of a run.
LEMMA MethodsKeepTypes ==
  ASSUME RunTypes, ReportTypes,
         \/ Reload \/ Crash \/ TestsPause \/ (\E n \in 1 .. MaxStreams : TestsResume(n)) \/ JobCancel
         \/ (\E over \in Overrides, n \in 1 .. MaxStreams : TestsRun(over, n))
         \/ UNCHANGED benchVars
  PROVE  RunTypes' /\ ReportTypes'
<1> USE DEF queueVars, reportVars
<1>1. CASE Reload \/ TestsPause \/ JobCancel
  <2>1. /\ UNCHANGED <<stage, outcome, modes, at, due, active, failed, head, buf, fresh, chain, sched, done, broken, disk, answered>>
        /\ Running
    BY <1>1 DEF Reload, TestsPause, JobCancel
  <2>2. /\ rag' \in {rag, FileSettings} /\ control' \in [paused : BOOLEAN, limit : 1 .. MaxStreams]
        /\ queue' \in [waiting : Seq(Range(TestCases)), attached : BOOLEAN] /\ aborted' \in BOOLEAN
    <3>1. CASE Reload
      BY <3>1 DEF Reload, RunTypes
    <3>2. CASE TestsPause
      BY <3>2 DEF TestsPause, RunTypes
    <3>3. CASE JobCancel
      BY <3>3, EmptiedQueue DEF JobCancel, RunTypes
    <3> QED BY <1>1, <3>1, <3>2, <3>3
  <2>3. RunTypes'
    BY <2>1, <2>2 DEF RunTypes, Before, Running
  <2> QED BY <2>1, <2>3 DEF ReportTypes
<1>2. CASE Crash
  <2>1. /\ stage' = "dead" /\ active' = {} /\ chain' = <<>>
        /\ UNCHANGED <<outcome, modes, at, due, control, queue, aborted, failed, rag, head, buf, fresh, sched, done, broken, disk, answered>>
    BY <1>2 DEF Crash
  <2>2. RunTypes'
    BY <2>1, FS_EmptySet DEF RunTypes, Stages, Ends, Before, InMode
  <2>3. <<>> \in Seq(Blocks)
    OBVIOUS
  <2> QED BY <2>1, <2>2, <2>3 DEF ReportTypes, Before
<1>3. ASSUME NEW n \in 1 .. MaxStreams, TestsResume(n)
      PROVE  RunTypes' /\ ReportTypes'
  <2>1. /\ control' = [paused |-> FALSE, limit |-> n]
        /\ UNCHANGED <<stage, outcome, modes, at, due, aborted, failed, rag, head, buf, fresh, chain, sched, done, broken, disk, answered>>
    BY <1>3 DEF TestsResume
  <2>2. control' \in [paused : BOOLEAN, limit : 1 .. MaxStreams]
    BY <2>1
  <2>3. /\ active' \in SUBSET Calls /\ IsFiniteSet(active')
        /\ queue' \in [waiting : Seq(Range(TestCases)), attached : BOOLEAN]
    <3>1. PICK k : k = control'
      OBVIOUS
    <3>2. CASE queue.attached
      <4>1. LET s == Starts(queue.waiting, active, k)
            IN s.waiting \in Seq(Range(TestCases)) /\ s.active \in SUBSET Calls /\ IsFiniteSet(s.active)
        BY <2>2, <3>1, StartsTypes DEF RunTypes
      <4>2. /\ active' = Starts(queue.waiting, active, k).active
            /\ queue' = [waiting |-> Starts(queue.waiting, active, k).waiting, attached |-> TRUE]
        BY <1>3, <3>1, <3>2 DEF TestsResume, QueueRuns
      <4> QED BY <4>1, <4>2
    <3>3. CASE ~queue.attached
      BY <1>3, <3>3 DEF TestsResume, RunTypes
    <3> QED BY <3>2, <3>3
  <2>4. RunTypes'
    BY <2>1, <2>2, <2>3 DEF RunTypes
  <2> QED BY <2>1, <2>4 DEF ReportTypes
<1>4. ASSUME NEW over \in Overrides, NEW n \in 1 .. MaxStreams, TestsRun(over, n)
      PROVE  RunTypes' /\ ReportTypes'
  <2>1. /\ stage \in {"idle", "ok", "cancelled", "failed"} /\ rag' = rag
        /\ stage' = "warmup" /\ outcome' = "none" /\ control' = [paused |-> FALSE, limit |-> n]
        /\ at' = 0 /\ due' = 0 /\ answered' = {} /\ queue' = NewQueue /\ active' = {}
        /\ aborted' = FALSE /\ failed' = FALSE
        /\ head' = NewHead /\ buf' = <<>> /\ fresh' = 0 /\ chain' = <<>> /\ sched' = 0
        /\ done' = 0 /\ broken' = FALSE /\ disk' = NewFiles
    BY <1>4 DEF TestsRun
  <2>2. modes' \in Seq(Range(modes'))
    BY <1>4, ModesOfTheForm
  <2>3. Len(modes') \in Nat
    BY <2>2, LenProperties
  <2>4. rag' \in {UserSettings, FileSettings}
    BY <2>1 DEF RunTypes, Before
  <2>5. queue' \in [waiting : Seq(Range(TestCases)), attached : BOOLEAN]
    BY <2>1 DEF NewQueue
  <2>6. active' \in SUBSET Calls /\ IsFiniteSet(active') /\ answered' \in SUBSET (Nat \X Range(TestCases))
        /\ IsFiniteSet(answered')
    BY <2>1, FS_EmptySet
  <2>7. RunTypes'
    <3>1. stage' \in Stages /\ stage' \notin InMode /\ outcome' = "none"
          /\ stage' \notin {"ok", "cancelled", "failed", "abort"}
      BY <2>1 DEF Stages, InMode
    <3>2. at' \in 0 .. Len(modes') /\ control' \in [paused : BOOLEAN, limit : 1 .. MaxStreams]
          /\ at' = 0
      BY <2>1, <2>3
    <3>3. {aborted', failed', broken'} \subseteq BOOLEAN
      BY <2>1
    <3> QED BY <2>2, <2>4, <2>5, <2>6, <3>1, <3>2, <3>3 DEF RunTypes
  <2>8. disk' \in Files
    BY <2>1 DEF NewFiles, Files, NoFile, NoSnapshot
  <2>9. head' \in Heads /\ fresh' \in 0 .. BatchSize - 1
    BY <2>1, CasesAreListed DEF NewHead, Heads
  <2>10. chain' \in Seq(Blocks) /\ buf' \in Seq(Words) /\ Len(chain') = 0
    BY <2>1
  <2>11. ReportTypes'
    BY <2>1, <2>8, <2>9, <2>10 DEF ReportTypes
  <2> QED BY <2>7, <2>11
<1>5. CASE UNCHANGED benchVars
  BY <1>5 DEF benchVars, RunTypes, ReportTypes
<1> QED BY <1>1, <1>2, <1>3, <1>4, <1>5

Total == Len(TestCases)

\* Cases run inside a mode, under its settings, each of them once at a time.
QueuePlace ==
  /\ stage # "cases" => active = {}
  /\ stage \notin Ends /\ stage # "cases" => ~queue.attached
  /\ stage = "cases" => queue.attached /\ rag \in {at, FileSettings}
  /\ \A c, d \in active : c.case = d.case => c = d

\* The first n cases have left the queue, and the others are still in it.
Taken(n) ==
  /\ queue.waiting = SubSeq(TestCases, n + 1, Total)
  /\ \A c \in active : \E i \in 1 .. n : c.case = TestCases[i]
  /\ stage = "cases" => \A i \in n + 1 .. Total : <<at, TestCases[i]>> \notin answered
  /\ stage = "cases" /\ ~aborted /\ ~failed =>
       \A i \in 1 .. n : \/ <<at, TestCases[i]>> \in answered
                         \/ \E c \in active : c.case = TestCases[i] /\ c.at = "engine"

\* What was answered, and that every mode before the current one is complete.
AnsweredOf ==
  /\ \A r \in answered : r[1] \in 1 .. at /\ (stage = "begin" => r[1] < at)
  /\ stage = "cases" => \A c \in active : (c.at = "engine") = (<<at, c.case>> \notin answered)
  /\ stage \in InMode \cup {"unlink"} =>
       \A m \in 1 .. at, x \in Range(TestCases) :
         (stage \in {"begin", "cases"} => m < at) => <<m, x>> \in answered

QueueInv == QueuePlace /\ (\E n \in 0 .. Total : Taken(n)) /\ AnsweredOf

-----------------------------------------------------------------------------
\* What is left of a sequence without its first k elements.
LEMMA RestIs ==
  ASSUME NEW S, NEW s \in Seq(S), NEW k \in 0 .. Len(s)
  PROVE  LET r == SubSeq(s, k + 1, Len(s))
         IN  r \in Seq(S) /\ Len(r) = Len(s) - k /\ \A i \in 1 .. Len(r) : r[i] = s[k + i]
<1>1. PICK m, l : m = k + 1 /\ l = Len(s)
  OBVIOUS
<1>2. l \in Nat /\ m \in Int /\ m > 0 /\ m <= l + 1
  BY <1>1, LenProperties
<1>3. \A i \in m .. l : s[i] \in S
  BY <1>1, <1>2, ElementOfSeq
<1>4. /\ SubSeq(s, m, l) \in Seq(S)
      /\ Len(SubSeq(s, m, l)) = IF m <= l THEN l - m + 1 ELSE 0
      /\ \A i \in 1 .. l - m + 1 : SubSeq(s, m, l)[i] = s[m + i - 1]
  BY <1>2, <1>3, SubSeqProperties
<1>5. PICK r : r = SubSeq(s, m, l)
  OBVIOUS
<1>6. Len(r) = l - k /\ r \in Seq(S)
  BY <1>1, <1>2, <1>4, <1>5
<1>7. ASSUME NEW i \in 1 .. Len(r)
      PROVE  r[i] = s[k + i]
  <2>1. \A j \in 1 .. l - m + 1 : r[j] = s[m + j - 1]
    BY <1>4, <1>5
  <2>2. i \in 1 .. l - m + 1 /\ m + i - 1 = k + i
    BY ONLY <1>1, <1>2, <1>6, i \in 1 .. Len(r), k \in 0 .. Len(s)
  <2>3. PICK j : j = m + i - 1
    OBVIOUS
  <2>4. r[i] = s[j]
    BY ONLY <2>1, <2>2, <2>3
  <2> QED BY <2>2, <2>3, <2>4
<1> QED BY <1>1, <1>5, <1>6, <1>7

\* What is left of what is left.
LEMMA RestOfRest ==
  ASSUME NEW n \in 0 .. Total, NEW w, w = SubSeq(TestCases, n + 1, Total)
  PROVE  /\ w \in Seq(Range(TestCases)) /\ Len(w) = Total - n
         /\ \A i \in 1 .. Len(w) : w[i] = TestCases[n + i]
         /\ \A k \in 0 .. Len(w) : SubSeq(w, k + 1, Len(w)) = SubSeq(TestCases, n + k + 1, Total)
<1>1. Total \in Nat /\ TestCases \in Seq(Range(TestCases)) /\ Total = Len(TestCases)
  BY CasesAreListed DEF Total
<1>2. w \in Seq(Range(TestCases)) /\ Len(w) = Total - n /\ \A i \in 1 .. Len(w) : w[i] = TestCases[n + i]
  BY <1>1, RestIs
<1>3. ASSUME NEW k \in 0 .. Len(w)
      PROVE  SubSeq(w, k + 1, Len(w)) = SubSeq(TestCases, n + k + 1, Total)
  <2>1. PICK a, b, p : a = SubSeq(w, k + 1, Len(w)) /\ p = n + k /\ b = SubSeq(TestCases, p + 1, Total)
    OBVIOUS
  <2>2. p \in 0 .. Total
    BY <1>1, <1>2, <2>1
  <2>3. a \in Seq(Range(TestCases)) /\ Len(a) = Len(w) - k /\ \A i \in 1 .. Len(a) : a[i] = w[k + i]
    BY <1>2, <2>1, RestIs
  <2>4. b \in Seq(Range(TestCases)) /\ Len(b) = Total - p /\ \A i \in 1 .. Len(b) : b[i] = TestCases[p + i]
    BY <1>1, <2>1, <2>2, RestIs
  <2>5. Len(a) = Len(b)
    BY <1>1, <1>2, <2>1, <2>3, <2>4
  <2>6. ASSUME NEW i \in 1 .. Len(a)
        PROVE  a[i] = b[i]
    <3>1. PICK j : j = k + i
      OBVIOUS
    <3>2. j \in 1 .. Len(w) /\ n + j = p + i
      BY <1>1, <1>2, <2>1, <2>3, <3>1
    <3> QED BY <1>2, <2>3, <2>4, <2>5, <3>1, <3>2
  <2>7. a = b
    BY <2>3, <2>4, <2>5, <2>6, SeqEqual
  <2> QED BY <2>1, <2>7
<1> QED BY <1>2, <1>3

\* No case is in the list twice.
LEMMA CasesDiffer ==
  \A i, j \in 1 .. Total : TestCases[i] = TestCases[j] => i = j
<1> QED BY BenchmarkAssumption, CasesAreListed DEF Total, IsInjective

NextCases(n, k) == {[case |-> TestCases[n + i], at |-> "engine", due |-> 0] : i \in 1 .. k}

\* The next k cases start, for which there is room.
StartsSome(n, k, running, c, s) ==
  /\ s.waiting = SubSeq(TestCases, n + k + 1, Total)
  /\ s.active = running \cup NextCases(n, k)
  /\ k > 0 => ~c.paused /\ Cardinality(s.active) <= c.limit

\* Whatever the queue starts, it takes from its head.
LEMMA StartsNext ==
  ASSUME NEW n \in 0 .. Total, NEW w, w = SubSeq(TestCases, n + 1, Total),
         NEW running \in SUBSET Calls, IsFiniteSet(running),
         NEW c \in [paused : BOOLEAN, limit : 1 .. MaxStreams]
  PROVE  \E k \in 0 .. Total - n : StartsSome(n, k, running, c, Starts(w, running, c))
<1> DEFINE s == Starts(w, running, c)
<1>1. w \in Seq(Range(TestCases)) /\ Len(w) = Total - n /\ Total \in Nat
  BY RestOfRest, CasesAreListed DEF Total
<1>2. PICK k \in 0 .. Len(w) :
             /\ s.waiting = SubSeq(w, k + 1, Len(w))
             /\ s.active = running \cup {[case |-> w[i], at |-> "engine", due |-> 0] : i \in 1 .. k}
             /\ k > 0 => ~c.paused /\ Cardinality(running) + k <= c.limit
             /\ Cardinality(s.active) <= Cardinality(running) + k
  BY <1>1, StartsTypes
<1>3. IsFiniteSet(s.active)
  BY <1>1, StartsTypes
<1>4. Cardinality(s.active) \in Nat /\ Cardinality(running) \in Nat /\ c.limit \in Nat
  BY <1>3, FS_CardinalityType, CasesAreListed
<1> HIDE DEF s
<1>5. s.waiting = SubSeq(TestCases, n + k + 1, Total)
  BY <1>2, RestOfRest
<1>6. \A i \in 1 .. k : w[i] = TestCases[n + i]
  BY <1>1, <1>2, RestOfRest
<1>7. s.active = running \cup NextCases(n, k)
  BY <1>2, <1>6 DEF NextCases
<1>8. k > 0 => ~c.paused /\ Cardinality(s.active) <= c.limit
  <2>1. Cardinality(running) + k <= c.limit => Cardinality(s.active) <= c.limit
    <3>1. k \in Int /\ Cardinality(s.active) <= Cardinality(running) + k
      <4>1. k \in Int
        BY <1>1
      <4>2. Cardinality(s.active) <= Cardinality(running) + k
        BY <1>2, Zenon
      <4> QED BY <4>1, <4>2
    <3> QED BY <1>4, <3>1
  <2> QED BY <1>2, <2>1
<1>9. k \in 0 .. Total - n
  BY <1>1, <1>2
<1>10. StartsSome(n, k, running, c, s)
  BY <1>5, <1>7, <1>8 DEF StartsSome
<1> QED BY <1>9, <1>10 DEF s

\* What a step may start.
FreshUnderControl ==
  \A c \in active' : c.at = "engine" /\ c \notin active =>
    ~control.paused' /\ Cardinality(active') <= control.limit'

\* The cases that run are among the first n, each of them once.
Apart(n, k, running) ==
  /\ n \in 0 .. Total /\ k \in 0 .. Total - n /\ running \in SUBSET Calls
  /\ \A c \in running : \E i \in 1 .. n : c.case = TestCases[i]
  /\ \A c, d \in running : c.case = d.case => c = d

\* So are they with the next k.
Joined(n, k, running, all) ==
  /\ \A c \in all : \E i \in 1 .. n + k : c.case = TestCases[i]
  /\ \A c, d \in all : c.case = d.case => c = d
  /\ \A c \in all \ running : c.at = "engine" /\ \E i \in n + 1 .. n + k : c.case = TestCases[i]
  /\ \A i \in n + 1 .. n + k : \E c \in all : c.case = TestCases[i] /\ c.at = "engine"
  /\ k = 0 => all = running

\* The next cases of the list are none of those that run.
LEMMA StartedAreOthers ==
  ASSUME NEW n, NEW k, NEW running, Apart(n, k, running)
  PROVE  Joined(n, k, running, running \cup NextCases(n, k))
<1> DEFINE A == running \cup NextCases(n, k)
<1> USE DEF Apart
<1>0. Total \in Nat
  BY CasesAreListed DEF Total
<1>1. ASSUME NEW c \in NextCases(n, k)
      PROVE  c.at = "engine" /\ \E i \in n + 1 .. n + k : c.case = TestCases[i] /\ c = [case |-> TestCases[i], at |-> "engine", due |-> 0]
  <2>1. PICK i \in 1 .. k : c = [case |-> TestCases[n + i], at |-> "engine", due |-> 0]
    BY <1>1 DEF NextCases
  <2>2. n + i \in n + 1 .. n + k
    BY <1>0
  <2> QED BY <2>1, <2>2
<1>2. ASSUME NEW c \in A
      PROVE  \E i \in 1 .. n + k : c.case = TestCases[i]
  <2>1. CASE c \in running
    BY <1>0, <2>1
  <2>2. CASE c \in NextCases(n, k)
    BY <1>0, <1>1, <2>2
  <2> QED BY <2>1, <2>2
<1>3. ASSUME NEW c \in A, NEW d \in A, c.case = d.case
      PROVE  c = d
  <2>1. CASE c \in running /\ d \in running
    BY <1>3, <2>1
  <2>2. CASE c \in NextCases(n, k) /\ d \in NextCases(n, k)
    <3>1. PICK i \in n + 1 .. n + k : c.case = TestCases[i] /\ c = [case |-> TestCases[i], at |-> "engine", due |-> 0]
      BY <1>1, <2>2
    <3>2. PICK j \in n + 1 .. n + k : d.case = TestCases[j] /\ d = [case |-> TestCases[j], at |-> "engine", due |-> 0]
      BY <1>1, <2>2
    <3> QED BY <1>3, <3>1, <3>2
  <2>3. ASSUME NEW e \in running, NEW f \in NextCases(n, k), e.case = f.case
        PROVE  FALSE
    <3>1. PICK i \in 1 .. n : e.case = TestCases[i]
      OBVIOUS
    <3>2. PICK j \in n + 1 .. n + k : f.case = TestCases[j]
      BY <1>1
    <3>3. i \in 1 .. Total /\ j \in 1 .. Total /\ i # j
      BY <1>0
    <3> QED BY <2>3, <3>1, <3>2, <3>3, CasesDiffer
  <2> QED BY <1>3, <2>1, <2>2, <2>3
<1>4. ASSUME NEW i \in n + 1 .. n + k
      PROVE  \E c \in A : c.case = TestCases[i] /\ c.at = "engine"
  <2>1. PICK j : j = i - n
    OBVIOUS
  <2>2. j \in 1 .. k /\ n + j = i
    BY <1>0, <2>1
  <2>3. [case |-> TestCases[n + j], at |-> "engine", due |-> 0] \in NextCases(n, k)
    BY <2>2 DEF NextCases
  <2> QED BY <2>2, <2>3
<1>5. k = 0 => A = running
  <2>1. k = 0 => NextCases(n, k) = {}
    BY DEF NextCases
  <2> QED BY <2>1
<1>6. ASSUME NEW c \in A \ running
      PROVE  c.at = "engine" /\ \E i \in n + 1 .. n + k : c.case = TestCases[i]
  BY <1>1
<1> HIDE DEF A
<1>7. Joined(n, k, running, A)
  BY ONLY <1>2, <1>3, <1>4, <1>5, <1>6 DEF Joined
<1> QED BY <1>7 DEF A

\* The queue of a mode, whatever it starts now, while nothing is answered.
LEMMA RunsOn ==
  ASSUME NEW n \in 0 .. Total, NEW k \in 0 .. Total - n, NEW running \in SUBSET Calls,
         \A c \in running : \E i \in 1 .. n : c.case = TestCases[i],
         \A c, d \in running : c.case = d.case => c = d,
         \A c \in running : (c.at = "engine") = (<<at, c.case>> \notin answered),
         \A i \in n + 1 .. Total : <<at, TestCases[i]>> \notin answered,
         active' = running \cup NextCases(n, k),
         queue'.attached,
         \/ /\ queue'.waiting = SubSeq(TestCases, n + k + 1, Total)
            /\ ~aborted' /\ ~failed' =>
                 \A i \in 1 .. n : \/ <<at, TestCases[i]>> \in answered
                                   \/ \E c \in running : c.case = TestCases[i] /\ c.at = "engine"
         \/ queue'.waiting = <<>> /\ (aborted' \/ failed'),
         stage' = "cases", at' = at, answered' = answered,
         rag' \in {at, FileSettings},
         \A r \in answered : r[1] \in 1 .. at,
         \A m \in 1 .. at, x \in Range(TestCases) : m < at => <<m, x>> \in answered
  PROVE  QueueInv'
<1>0. Total \in Nat
  BY CasesAreListed DEF Total
<1>1. /\ \A c \in active' : \E i \in 1 .. n + k : c.case = TestCases[i]
      /\ \A c, d \in active' : c.case = d.case => c = d
      /\ \A c \in active' \ running : c.at = "engine" /\ \E i \in n + 1 .. n + k : c.case = TestCases[i]
      /\ \A i \in n + 1 .. n + k : \E c \in active' : c.case = TestCases[i] /\ c.at = "engine"
  <2>1. Apart(n, k, running)
    BY DEF Apart
  <2>2. Joined(n, k, running, active')
    BY <2>1, StartedAreOthers
  <2> QED BY <2>2 DEF Joined
<1>2. QueuePlace'
  BY <1>1 DEF QueuePlace, Ends
<1>3. ASSUME NEW c \in active'
      PROVE  (c.at = "engine") = (<<at, c.case>> \notin answered)
  <2>1. CASE c \in running
    BY <2>1
  <2>2. CASE c \notin running
    <3>1. c.at = "engine"
      BY <1>1, <2>2
    <3>2. PICK i \in n + 1 .. n + k : c.case = TestCases[i]
      BY <1>1, <2>2
    <3>3. i \in n + 1 .. Total
      BY <1>0
    <3> QED BY <3>1, <3>2, <3>3
  <2> QED BY <2>1, <2>2
<1>4. AnsweredOf'
  BY <1>3 DEF AnsweredOf, InMode
<1>5. CASE queue'.waiting = SubSeq(TestCases, n + k + 1, Total) /\
            (~aborted' /\ ~failed' =>
                 \A i \in 1 .. n : \/ <<at, TestCases[i]>> \in answered
                                   \/ \E c \in running : c.case = TestCases[i] /\ c.at = "engine")
  <2>1. n + k \in 0 .. Total
    BY <1>0
  <2>2. \A i \in n + k + 1 .. Total : <<at, TestCases[i]>> \notin answered
    BY <1>0
  <2>3. ASSUME ~aborted', ~failed', NEW i \in 1 .. n + k
        PROVE  \/ <<at, TestCases[i]>> \in answered
               \/ \E c \in active' : c.case = TestCases[i] /\ c.at = "engine"
    <3>1. CASE i \in 1 .. n
      BY <1>5, <2>3, <3>1
    <3>2. CASE i \in n + 1 .. n + k
      BY <1>1, <3>2
    <3> QED BY <1>0, <3>1, <3>2
  <2>4. PICK p : p = n + k
    OBVIOUS
  <2>5. Taken(p)'
    BY <1>1, <1>5, <2>2, <2>3, <2>4 DEF Taken
  <2> QED BY <1>2, <1>4, <2>1, <2>4, <2>5 DEF QueueInv
<1>6. CASE queue'.waiting = <<>> /\ (aborted' \/ failed')
  <2>1. SubSeq(TestCases, Total + 1, Total) = <<>>
    BY <1>0, SubSeqEmpty
  <2>2. \A c \in active' : \E i \in 1 .. Total : c.case = TestCases[i]
    BY <1>0, <1>1
  <2>3. \A i \in Total + 1 .. Total : FALSE
    BY <1>0
  <2>4. Taken(Total)'
    <3>1. \A i \in Total + 1 .. Total : <<at', TestCases[i]>> \notin answered'
      BY <2>3
    <3> HIDE DEF Total
    <3>2. stage' = "cases" /\ ~aborted' /\ ~failed' => FALSE
      BY <1>6
    <3>3. queue'.waiting = SubSeq(TestCases, Total + 1, Total)
      BY <1>6, <2>1
    <3> QED BY <2>2, <3>1, <3>2, <3>3 DEF Taken
  <2> QED BY <1>0, <1>2, <1>4, <2>4 DEF QueueInv
<1> QED BY <1>5, <1>6

TypeInv == RunTypes /\ ReportTypes

\* All cases have left the queue.
LEMMA NothingWaits == Taken(Total) <=>
  /\ queue.waiting = <<>>
  /\ \A c \in active : \E i \in 1 .. Total : c.case = TestCases[i]
  /\ stage = "cases" /\ ~aborted /\ ~failed =>
       \A i \in 1 .. Total : \/ <<at, TestCases[i]>> \in answered
                            \/ \E c \in active : c.case = TestCases[i] /\ c.at = "engine"
<1>1. Total \in Nat
  BY CasesAreListed DEF Total
<1>2. SubSeq(TestCases, Total + 1, Total) = <<>>
  BY <1>1, SubSeqEmpty
<1>3. \A i \in Total + 1 .. Total : FALSE
  BY <1>1
<1> HIDE DEF Total
<1> QED BY <1>2, <1>3 DEF Taken

\* A step outside of a mode's cases.
LEMMA QueueRests ==
  ASSUME QueueInv, stage' # "cases", active' = {},
         queue'.waiting = queue.waiting \/ queue'.waiting = <<>>,
         stage' \notin Ends => ~queue'.attached, AnsweredOf'
  PROVE  QueueInv'
<1>1. QueuePlace'
  BY DEF QueuePlace
<1>2. CASE queue'.waiting = queue.waiting
  <2>1. PICK n \in 0 .. Total : Taken(n)
    BY DEF QueueInv
  <2>2. Taken(n)'
    BY <1>2, <2>1 DEF Taken
  <2> QED BY <1>1, <2>1, <2>2 DEF QueueInv
<1>3. CASE queue'.waiting = <<>>
  <2>1. SubSeq(TestCases, Total + 1, Total) = <<>> /\ Total \in 0 .. Total
    BY SubSeqEmpty, CasesAreListed DEF Total
  <2> HIDE DEF Total
  <2>2. Taken(Total)'
    BY <1>3, <2>1 DEF Taken
  <2> QED BY <1>1, <2>1, <2>2 DEF QueueInv
<1> QED BY <1>2, <1>3

\* A mode begins: its cases are queued, and some of them start if they may.
LEMMA ModeStarts ==
  ASSUME TypeInv, QueueInv, ModeBegins
  PROVE  QueueInv' /\ FreshUnderControl
<1> USE DEF queueVars, reportVars
<1>1. /\ stage = "begin" /\ stage' = "cases" /\ rag' = at /\ Attach /\ active = {}
      /\ UNCHANGED <<at, control, aborted, failed, answered>>
  BY DEF ModeBegins, QueueInv, QueuePlace
<1>2. Total \in Nat /\ 0 \in 0 .. Total /\ TestCases = SubSeq(TestCases, 0 + 1, Total)
  BY CasesAreListed, SubSeqFull DEF Total
<1>3. {} \in SUBSET Calls /\ IsFiniteSet({}) /\ control \in [paused : BOOLEAN, limit : 1 .. MaxStreams]
  BY FS_EmptySet DEF TypeInv, RunTypes
<1>4. PICK w : w = TestCases
  OBVIOUS
<1>5. w = SubSeq(TestCases, 0 + 1, Total)
  BY <1>2, <1>4
<1>6. PICK k \in 0 .. Total - 0 :
         /\ Starts(w, {}, control).waiting = SubSeq(TestCases, 0 + k + 1, Total)
         /\ Starts(w, {}, control).active = {} \cup NextCases(0, k)
         /\ k > 0 => ~control.paused /\ Cardinality(Starts(w, {}, control).active) <= control.limit
  <2>1. \E i \in 0 .. Total - 0 : StartsSome(0, i, {}, control, Starts(w, {}, control))
    BY <1>2, <1>3, <1>5, StartsNext
  <2> QED BY <2>1 DEF StartsSome
<1>7. /\ active' = {} \cup NextCases(0, k)
      /\ queue' = [waiting |-> IF aborted THEN <<>> ELSE SubSeq(TestCases, 0 + k + 1, Total), attached |-> TRUE]
  BY <1>1, <1>4, <1>6 DEF Attach, NextCases
<1>8. FreshUnderControl
  <2>1. k = 0 => active' = {}
    BY <1>7 DEF NextCases
  <2>2. k > 0 => ~control'.paused /\ Cardinality(active') <= control'.limit
    BY <1>1, <1>4, <1>6 DEF Attach
  <2>3. k = 0 \/ k > 0
    BY <1>2
  <2> QED BY <2>1, <2>2, <2>3 DEF FreshUnderControl
<1>9. /\ \A r \in answered : r[1] \in 1 .. at /\ r[1] < at
      /\ \A m \in 1 .. at, x \in Range(TestCases) : m < at => <<m, x>> \in answered
  BY <1>1 DEF QueueInv, AnsweredOf, InMode
<1>10. \A x : <<at, x>> \notin answered
  <2> SUFFICES ASSUME NEW x, <<at, x>> \in answered PROVE FALSE
    OBVIOUS
  <2>1. at < at /\ at \in 1 .. at
    BY <1>9
  <2> QED BY <2>1
<1>11. queue'.attached /\ queue'.waiting = IF aborted THEN <<>> ELSE SubSeq(TestCases, 0 + k + 1, Total)
  BY <1>7
<1>12. \A i \in 1 .. 0 : FALSE
  OBVIOUS
<1> HIDE DEF Total
<1> QED BY <1>1, <1>2, <1>3, <1>6, <1>7, <1>8, <1>9, <1>10, <1>11, <1>12, RunsOn

\* The facts about a mode whose cases run.
LEMMA InCases ==
  ASSUME TypeInv, QueueInv, stage = "cases"
  PROVE  /\ queue.attached /\ rag \in {at, FileSettings}
         /\ active \in SUBSET Calls /\ IsFiniteSet(active)
         /\ \A c, d \in active : c.case = d.case => c = d
         /\ \A c \in active : (c.at = "engine") = (<<at, c.case>> \notin answered)
         /\ \A r \in answered : r[1] \in 1 .. at
         /\ \A m \in 1 .. at, x \in Range(TestCases) : m < at => <<m, x>> \in answered
         /\ control \in [paused : BOOLEAN, limit : 1 .. MaxStreams]
<1> QED BY DEF TypeInv, RunTypes, QueueInv, QueuePlace, AnsweredOf, InMode

\* A case returns, and the queue starts others in its place.
LEMMA Returns ==
  ASSUME TypeInv, QueueInv, NEW c \in active, CaseReturns(c)
  PROVE  QueueInv' /\ FreshUnderControl
<1> USE DEF queueVars, reportVars
<1>1. /\ stage = "cases" /\ stage' = "cases" /\ c.at = "report"
      /\ UNCHANGED <<at, control, aborted, failed, answered, rag>>
  BY DEF CaseReturns, QueueInv, QueuePlace
<1>2. PICK n \in 0 .. Total : Taken(n)
  BY DEF QueueInv
<1>3. PICK w, running : w = queue.waiting /\ running = active \ {c}
  OBVIOUS
<1>4. running \in SUBSET Calls /\ IsFiniteSet(running) /\ w = SubSeq(TestCases, n + 1, Total)
  BY <1>1, <1>2, <1>3, InCases, FS_RemoveElement DEF Taken
<1>5. control \in [paused : BOOLEAN, limit : 1 .. MaxStreams]
  BY <1>1, InCases
<1>6. PICK k \in 0 .. Total - n :
         /\ Starts(w, running, control).waiting = SubSeq(TestCases, n + k + 1, Total)
         /\ Starts(w, running, control).active = running \cup NextCases(n, k)
         /\ k > 0 => ~control.paused /\ Cardinality(Starts(w, running, control).active) <= control.limit
  <2>1. \E k \in 0 .. Total - n : StartsSome(n, k, running, control, Starts(w, running, control))
    BY <1>4, <1>5, StartsNext
  <2> QED BY <2>1 DEF StartsSome
<1>7. /\ active' = running \cup NextCases(n, k) /\ active' = Starts(w, running, control).active
      /\ queue'.waiting = SubSeq(TestCases, n + k + 1, Total) /\ queue'.attached
  BY <1>3, <1>6 DEF CaseReturns, QueueRuns, NextCases
<1>8. FreshUnderControl
  <2>1. k = 0 => active' = running
    BY <1>7 DEF NextCases
  <2>2. k > 0 => ~control'.paused /\ Cardinality(active') <= control'.limit
    BY <1>1, <1>6, <1>7
  <2>3. k = 0 \/ k > 0
    BY CasesAreListed DEF Total
  <2> QED BY <1>3, <2>1, <2>2, <2>3 DEF FreshUnderControl
<1>9. ~aborted' /\ ~failed' =>
         \A i \in 1 .. n : \/ <<at, TestCases[i]>> \in answered
                           \/ \E d \in running : d.case = TestCases[i] /\ d.at = "engine"
  BY <1>1, <1>2, <1>3 DEF Taken
<1>10. /\ \A d \in running : \E i \in 1 .. n : d.case = TestCases[i]
       /\ \A i \in n + 1 .. Total : <<at, TestCases[i]>> \notin answered
  BY <1>1, <1>2, <1>3 DEF Taken
<1>11. /\ \A d, e \in running : d.case = e.case => d = e
       /\ \A d \in running : (d.at = "engine") = (<<at, d.case>> \notin answered)
  BY <1>1, <1>3, InCases
<1>12. /\ \A r \in answered : r[1] \in 1 .. at
       /\ \A m \in 1 .. at, x \in Range(TestCases) : m < at => <<m, x>> \in answered
       /\ rag' \in {at, FileSettings}
  BY <1>1, InCases
<1> HIDE DEF Total
<1> QED BY <1>1, <1>4, <1>7, <1>8, <1>9, <1>10, <1>11, <1>12, RunsOn

\* A case throws, and the queue is emptied.
LEMMA Throws ==
  ASSUME TypeInv, QueueInv, NEW c \in active, CaseThrows(c)
  PROVE  QueueInv' /\ FreshUnderControl
<1> USE DEF queueVars, reportVars
<1>1. /\ stage = "cases" /\ stage' = "cases" /\ failed'
      /\ UNCHANGED <<at, control, aborted, answered, rag>>
  BY DEF CaseThrows, QueueInv, QueuePlace
<1>2. PICK n \in 0 .. Total : Taken(n)
  BY DEF QueueInv
<1>3. PICK w, running : w = queue.waiting /\ running = active \ {c}
  OBVIOUS
<1>4. running \in SUBSET Calls /\ IsFiniteSet(running) /\ w = SubSeq(TestCases, n + 1, Total)
  BY <1>1, <1>2, <1>3, InCases, FS_RemoveElement DEF Taken
<1>5. control \in [paused : BOOLEAN, limit : 1 .. MaxStreams]
  BY <1>1, InCases
<1>6. PICK j \in 0 .. Total - n :
         /\ Starts(w, running, control).waiting = SubSeq(TestCases, n + j + 1, Total)
         /\ Starts(w, running, control).active = running \cup NextCases(n, j)
         /\ j > 0 => ~control.paused /\ Cardinality(Starts(w, running, control).active) <= control.limit
  <2>1. \E k \in 0 .. Total - n : StartsSome(n, k, running, control, Starts(w, running, control))
    BY <1>4, <1>5, StartsNext
  <2> QED BY <2>1 DEF StartsSome
<1>7. PICK k \in 0 .. Total - n :
         /\ active' = running \cup NextCases(n, k)
         /\ k > 0 => ~control.paused /\ Cardinality(active') <= control.limit
  <2>1. CASE active' = running
    <3>1. NextCases(n, 0) = {} /\ 0 \in 0 .. Total - n
      BY CasesAreListed DEF NextCases, Total
    <3> QED BY <2>1, <3>1
  <2>2. CASE active' = Starts(w, running, control).active
    BY <1>6, <2>2 DEF NextCases
  <2> QED BY <1>3, <2>1, <2>2 DEF CaseThrows
<1>8. FreshUnderControl
  <2>1. k = 0 => active' = running
    BY <1>7 DEF NextCases
  <2>2. k = 0 \/ k > 0
    BY CasesAreListed DEF Total
  <2> QED BY <1>1, <1>3, <1>7, <2>1, <2>2 DEF FreshUnderControl
<1>9. queue'.attached /\ queue'.waiting = <<>>
  BY <1>1, InCases, EmptiedQueue DEF CaseThrows, TypeInv, RunTypes
<1>10. /\ \A d \in running : \E i \in 1 .. n : d.case = TestCases[i]
       /\ \A i \in n + 1 .. Total : <<at, TestCases[i]>> \notin answered
  BY <1>1, <1>2, <1>3 DEF Taken
<1>11. /\ \A d, e \in running : d.case = e.case => d = e
       /\ \A d \in running : (d.at = "engine") = (<<at, d.case>> \notin answered)
  BY <1>1, <1>3, InCases
<1>12. /\ \A r \in answered : r[1] \in 1 .. at
       /\ \A m \in 1 .. at, x \in Range(TestCases) : m < at => <<m, x>> \in answered
       /\ rag' \in {at, FileSettings}
  BY <1>1, InCases
<1> HIDE DEF Total
<1> QED BY <1>1, <1>4, <1>7, <1>8, <1>9, <1>10, <1>11, <1>12, RunsOn

\* The queue goes on under a new limit.
LEMMA Resumes ==
  ASSUME TypeInv, QueueInv, NEW m \in 1 .. MaxStreams, TestsResume(m)
  PROVE  QueueInv' /\ FreshUnderControl
<1> USE DEF queueVars, reportVars
<1>1. /\ Running /\ control' = [paused |-> FALSE, limit |-> m]
      /\ UNCHANGED <<stage, at, aborted, failed, answered, rag>>
  BY DEF TestsResume
<1>2. CASE ~queue.attached
  <2>1. UNCHANGED <<queue, active>>
    BY <1>2 DEF TestsResume
  <2> QED BY <1>1, <2>1 DEF QueueInv, QueuePlace, Taken, AnsweredOf, FreshUnderControl
<1>3. CASE queue.attached
  <2>0. stage = "cases" /\ stage' = "cases"
    BY <1>1, <1>3 DEF QueueInv, QueuePlace, Running
  <2>2. PICK n \in 0 .. Total : Taken(n)
    BY DEF QueueInv
  <2>3. PICK w, running, c : w = queue.waiting /\ running = active /\ c = control'
    OBVIOUS
  <2>4. running \in SUBSET Calls /\ IsFiniteSet(running) /\ w = SubSeq(TestCases, n + 1, Total)
    BY <2>0, <2>2, <2>3, InCases DEF Taken
  <2>5. c \in [paused : BOOLEAN, limit : 1 .. MaxStreams]
    BY <1>1, <2>3
  <2>6. PICK k \in 0 .. Total - n : StartsSome(n, k, running, c, Starts(w, running, c))
    BY <2>4, <2>5, StartsNext
  <2>7. /\ active' = running \cup NextCases(n, k)
        /\ k > 0 => ~c.paused /\ Cardinality(active') <= c.limit
        /\ queue'.waiting = SubSeq(TestCases, n + k + 1, Total) /\ queue'.attached
    <3>1. /\ queue' = [waiting |-> Starts(queue.waiting, active, control').waiting, attached |-> TRUE]
          /\ active' = Starts(queue.waiting, active, control').active
      BY <1>3 DEF TestsResume, QueueRuns
    <3>2. /\ queue' = [waiting |-> Starts(w, running, c).waiting, attached |-> TRUE]
          /\ active' = Starts(w, running, c).active
      BY <2>3, <3>1
    <3> QED BY <2>6, <3>2 DEF StartsSome
  <2>8. FreshUnderControl
    <3>1. k = 0 => active' = running
      BY <2>7 DEF NextCases
    <3>2. k = 0 \/ k > 0
      BY CasesAreListed DEF Total
    <3> QED BY <2>3, <2>7, <3>1, <3>2 DEF FreshUnderControl
  <2>9. ~aborted' /\ ~failed' =>
           \A i \in 1 .. n : \/ <<at, TestCases[i]>> \in answered
                             \/ \E d \in running : d.case = TestCases[i] /\ d.at = "engine"
    BY <1>1, <2>0, <2>2, <2>3 DEF Taken
  <2>10. /\ \A d \in running : \E i \in 1 .. n : d.case = TestCases[i]
         /\ \A i \in n + 1 .. Total : <<at, TestCases[i]>> \notin answered
    BY <2>0, <2>2, <2>3 DEF Taken
  <2>11. /\ \A d, e \in running : d.case = e.case => d = e
         /\ \A d \in running : (d.at = "engine") = (<<at, d.case>> \notin answered)
    BY <2>0, <2>3, InCases
  <2>12. /\ \A r \in answered : r[1] \in 1 .. at
         /\ \A j \in 1 .. at, x \in Range(TestCases) : j < at => <<j, x>> \in answered
         /\ rag' \in {at, FileSettings}
    BY <1>1, <2>0, InCases
  <2> HIDE DEF Total
  <2> QED BY <1>1, <2>0, <2>4, <2>7, <2>8, <2>9, <2>10, <2>11, <2>12, RunsOn
<1> QED BY <1>2, <1>3

\* A case is answered, once.
LEMMA IsAnswered ==
  ASSUME TypeInv, QueueInv, NEW c \in active, Answered(c)
  PROVE  QueueInv' /\ FreshUnderControl
<1> USE DEF queueVars, reportVars
<1>1. /\ stage = "cases" /\ c.at = "engine" /\ answered' = answered \cup {<<at, c.case>>}
      /\ UNCHANGED <<stage, at, control, queue, aborted, failed, rag>>
  BY DEF Answered, QueueInv, QueuePlace
<1>2. PICK d : d = [c EXCEPT !.at = "report", !.due = sched']
  OBVIOUS
<1>3. active' = (active \ {c}) \cup {d}
  BY <1>2 DEF Answered
<1>4. c \in Calls /\ d.case = c.case /\ d.at = "report"
  BY <1>1, <1>2, InCases DEF Calls
<1>5. \A e \in active \ {c} : e.case # c.case
  BY <1>1, InCases
<1>6. PICK n \in 0 .. Total : Taken(n)
  BY DEF QueueInv
<1>7. PICK j \in 1 .. n : c.case = TestCases[j]
  BY <1>6 DEF Taken
<1>8. Total \in Nat
  BY CasesAreListed DEF Total
<1>9. \A i \in n + 1 .. Total : TestCases[i] # c.case
  <2> SUFFICES ASSUME NEW i \in n + 1 .. Total, TestCases[i] = c.case PROVE FALSE
    OBVIOUS
  <2>1. i \in 1 .. Total /\ j \in 1 .. Total /\ i # j
    BY <1>8
  <2> QED BY <1>7, <2>1, CasesDiffer
<1>10. QueuePlace'
  <2>1. \A e, f \in active' : e.case = f.case => e = f
    BY <1>1, <1>3, <1>4, <1>5, InCases
  <2> QED BY <1>1, <2>1, InCases DEF QueuePlace, Ends
<1>11. Taken(n)'
  <2>1. \A e \in active' : \E i \in 1 .. n : e.case = TestCases[i]
    BY <1>3, <1>4, <1>6, <1>7 DEF Taken
  <2>2. \A i \in n + 1 .. Total : <<at, TestCases[i]>> \notin answered'
    BY <1>1, <1>6, <1>9 DEF Taken
  <2>3. ASSUME ~aborted, ~failed, NEW i \in 1 .. n
        PROVE  \/ <<at, TestCases[i]>> \in answered'
               \/ \E e \in active' : e.case = TestCases[i] /\ e.at = "engine"
    <3>1. CASE <<at, TestCases[i]>> \in answered
      BY <1>1, <3>1
    <3>2. CASE \E e \in active : e.case = TestCases[i] /\ e.at = "engine"
      <4>1. PICK e \in active : e.case = TestCases[i] /\ e.at = "engine"
        BY <3>2
      <4>2. CASE e = c
        BY <1>1, <4>1, <4>2
      <4>3. CASE e # c
        BY <1>3, <4>1, <4>3
      <4> QED BY <4>2, <4>3
    <3> QED BY <1>1, <1>6, <2>3, <3>1, <3>2 DEF Taken
  <2>4. queue'.waiting = SubSeq(TestCases, n + 1, Total)
    BY <1>1, <1>6 DEF Taken
  <2> HIDE DEF Total
  <2> QED BY <1>1, <2>1, <2>2, <2>3, <2>4 DEF Taken
<1>12. AnsweredOf'
  <2>1. at \in 1 .. at
    BY <1>1, LenProperties DEF TypeInv, RunTypes, InMode
  <2>2. \A r \in answered' : r[1] \in 1 .. at
    BY <1>1, <2>1, InCases
  <2>3. \A e \in active' : (e.at = "engine") = (<<at, e.case>> \notin answered')
    <3>1. ASSUME NEW e \in active', e # d
          PROVE  (e.at = "engine") = (<<at, e.case>> \notin answered')
      <4>1. e \in active /\ e.case # c.case
        BY <1>3, <1>5, <3>1
      <4> QED BY <1>1, <4>1, InCases
    <3>2. d.at # "engine" /\ <<at, d.case>> \in answered'
      BY <1>1, <1>4
    <3> QED BY <3>1, <3>2
  <2>4. \A m \in 1 .. at, x \in Range(TestCases) : m < at => <<m, x>> \in answered'
    BY <1>1, InCases
  <2> QED BY <1>1, <2>2, <2>3, <2>4 DEF AnsweredOf, InMode
<1>13. FreshUnderControl
  BY <1>3, <1>4 DEF FreshUnderControl
<1> QED BY <1>10, <1>11, <1>12, <1>13 DEF QueueInv

\* A step of runRagTests keeps the queue in order.
LEMMA RunKeepsQueue ==
  ASSUME TypeInv, QueueInv, RunStep
  PROVE  QueueInv' /\ FreshUnderControl
<1> USE DEF queueVars, reportVars
<1>1. CASE ModeBegins
  BY <1>1, ModeStarts
<1>2. CASE ModeEnds
  <2>1. /\ stage = "cases" /\ stage' = "end" /\ queue.waiting = <<>> /\ active = {} /\ ~aborted /\ ~failed
        /\ queue' = [waiting |-> <<>>, attached |-> FALSE]
        /\ UNCHANGED <<at, active, answered>>
    BY <1>2 DEF ModeEnds, Idle, Detached, NewQueue
  <2>2. PICK n \in 0 .. Total : Taken(n)
    BY DEF QueueInv
  <2>3. n = Total
    <3>1. PICK w : w = queue.waiting
      OBVIOUS
    <3>2. Len(w) = Total - n
      BY <2>2, <3>1, RestOfRest DEF Taken
    <3>3. Len(w) = 0 /\ Total \in Nat
      BY <2>1, <3>1, CasesAreListed DEF Total
    <3> QED BY <3>2, <3>3
  <2>4. \A i \in 1 .. Total : <<at, TestCases[i]>> \in answered
    BY <2>1, <2>2, <2>3 DEF Taken
  <2>5. \A x \in Range(TestCases) : \E i \in 1 .. Total : x = TestCases[i]
    BY CasesAreListed DEF Total, Range
  <2>6. \A m \in 1 .. at, x \in Range(TestCases) : <<m, x>> \in answered
    <3> TAKE m \in 1 .. at, x \in Range(TestCases)
    <3>1. CASE m < at
      BY <2>1, <3>1, InCases
    <3>2. CASE m = at
      BY <2>4, <2>5, <3>2
    <3>3. at \in Nat
      BY LenProperties DEF TypeInv, RunTypes
    <3> QED BY <3>1, <3>2, <3>3
  <2>7. AnsweredOf'
    <3>1. \A r \in answered : r[1] \in 1 .. at
      BY <2>1, InCases
    <3> QED BY <2>1, <2>6, <3>1 DEF AnsweredOf, InMode
  <2>8. QueueInv'
    BY <2>1, <2>7, QueueRests DEF Ends
  <2> QED BY <2>1, <2>8 DEF FreshUnderControl
<1>3. CASE NextMode
  <2>1. /\ stage = "end" /\ stage' = "begin" /\ at' = at + 1 /\ UNCHANGED <<queue, active, answered>>
    BY <1>3 DEF NextMode, BeginMode
  <2>2. active = {} /\ ~queue.attached
    BY <2>1 DEF QueueInv, QueuePlace, Ends
  <2>3. at \in Nat
    BY LenProperties DEF TypeInv, RunTypes
  <2>4. AnsweredOf'
    <3>1. \A r \in answered : r[1] \in 1 .. at
      BY DEF QueueInv, AnsweredOf
    <3>2. \A m \in 1 .. at, x \in Range(TestCases) : <<m, x>> \in answered
      BY <2>1 DEF QueueInv, AnsweredOf, InMode
    <3>3. \A r \in answered' : r[1] \in 1 .. at' /\ r[1] < at'
      BY <2>1, <2>3, <3>1
    <3>4. \A m \in 1 .. at', x \in Range(TestCases) : m < at' => <<m, x>> \in answered'
      BY <2>1, <2>3, <3>2
    <3> QED BY <2>1, <3>3, <3>4 DEF AnsweredOf, InMode
  <2>5. QueueInv'
    BY <2>1, <2>2, <2>4, QueueRests DEF Ends
  <2> QED BY <2>1, <2>2, <2>5 DEF FreshUnderControl
<1>4. CASE Warmed
  <2>1. /\ stage = "warmup" /\ stage' = "begin" /\ at' = 1 /\ UNCHANGED <<queue, active, answered>>
    BY <1>4 DEF Warmed
  <2>2. active = {} /\ ~queue.attached /\ answered = {}
    <3>1. active = {} /\ ~queue.attached
      BY <2>1 DEF QueueInv, QueuePlace, Ends
    <3>2. at = 0
      BY <2>1 DEF TypeInv, RunTypes, Before
    <3>3. \A r \in answered : FALSE
      BY <3>2 DEF QueueInv, AnsweredOf
    <3> QED BY <3>1, <3>3
  <2>3. AnsweredOf'
    BY <2>1, <2>2 DEF AnsweredOf, InMode
  <2>4. QueueInv'
    BY <2>1, <2>2, <2>3, QueueRests DEF Ends
  <2> QED BY <2>1, <2>2, <2>4 DEF FreshUnderControl
<1>5. CASE \/ WarmupFails \/ QueueThrows \/ Closes \/ CloseFails \/ UnlinkFails \/ Unlinks
           \/ ReportFails \/ PutAway \/ PutAwayFails
  <2>1. /\ UNCHANGED <<at, active, answered>>
        /\ stage' \in {"ok", "cancelled", "failed", "abort", "unlink"}
        /\ stage' = "unlink" => stage = "end"
        /\ \/ stage # "cases" /\ queue' = queue
           \/ active = {} /\ queue' = [waiting |-> <<>>, attached |-> FALSE]
        /\ stage \notin Ends
    <3>1. CASE WarmupFails
      BY <3>1 DEF WarmupFails, Finally, Ends
    <3>2. CASE QueueThrows
      BY <3>2 DEF QueueThrows, Finally, Detached, NewQueue, Idle, Ends
    <3>3. CASE Closes \/ CloseFails \/ UnlinkFails
      BY <3>3 DEF Closes, CloseFails, UnlinkFails, Ends
    <3>4. CASE Unlinks
      BY <3>4 DEF Unlinks, Finally, Ends
    <3>5. CASE ReportFails
      BY <3>5 DEF ReportFails, Finally, Ends
    <3>6. CASE PutAway \/ PutAwayFails
      <4>1. outcome \in {"cancelled", "failed"} /\ stage = "abort"
        BY <3>6 DEF PutAway, PutAwayFails, TypeInv, RunTypes
      <4> QED BY <3>6, <4>1 DEF PutAway, PutAwayFails, Ends
    <3> QED BY <1>5, <3>1, <3>2, <3>3, <3>4, <3>5, <3>6
  <2>2. active = {} /\ (queue' = queue => ~queue.attached)
    BY <2>1 DEF QueueInv, QueuePlace
  <2>3. AnsweredOf'
    BY <2>1, <2>2 DEF QueueInv, AnsweredOf, InMode
  <2>4. QueueInv'
    BY <2>1, <2>2, <2>3, QueueRests
  <2> QED BY <2>1, <2>2, <2>4 DEF FreshUnderControl
<1> QED BY <1>1, <1>2, <1>3, <1>4, <1>5 DEF RunStep

\* So does what comes from outside the run, and the chain of blocks.
LEMMA MethodsKeepQueue ==
  ASSUME TypeInv, QueueInv,
         \/ ReportStep \/ DiskFails \/ Reload \/ Crash \/ TestsPause \/ JobCancel
         \/ (\E over \in Overrides, n \in 1 .. MaxStreams : TestsRun(over, n))
         \/ UNCHANGED benchVars
  PROVE  QueueInv' /\ FreshUnderControl
<1> USE DEF queueVars, reportVars
<1>1. CASE ReportStep \/ DiskFails \/ TestsPause \/ UNCHANGED benchVars
  <2>1. UNCHANGED <<stage, at, queue, active, aborted, failed, rag, answered>>
    BY <1>1 DEF ReportStep, WriteChain, PublishChain, DiskFails, TestsPause, benchVars
  <2> QED BY <2>1 DEF QueueInv, QueuePlace, Taken, AnsweredOf, FreshUnderControl
<1>2. CASE Reload
  <2>1. UNCHANGED <<stage, at, queue, active, aborted, failed, answered>> /\ rag' = FileSettings
    BY <1>2 DEF Reload
  <2> QED BY <2>1 DEF QueueInv, QueuePlace, Taken, AnsweredOf, FreshUnderControl
<1>3. CASE Crash
  <2>1. stage' = "dead" /\ active' = {} /\ UNCHANGED <<at, queue, answered>>
    BY <1>3 DEF Crash
  <2>2. AnsweredOf'
    BY <2>1 DEF QueueInv, AnsweredOf, InMode
  <2>3. QueueInv'
    BY <2>1, <2>2, QueueRests DEF Ends
  <2> QED BY <2>1, <2>3 DEF FreshUnderControl
<1>4. CASE JobCancel
  <2>1. /\ UNCHANGED <<stage, at, active, failed, rag, answered>> /\ aborted'
        /\ queue'.waiting = <<>> /\ queue'.attached = queue.attached
    BY <1>4, EmptiedQueue DEF JobCancel, TypeInv, RunTypes
  <2>2. PICK n \in 0 .. Total : Taken(n)
    BY DEF QueueInv
  <2>3. Total \in Nat
    BY CasesAreListed DEF Total
  <2>4. Taken(Total)'
    <3>1. SubSeq(TestCases, Total + 1, Total) = <<>>
      BY <2>3, SubSeqEmpty
    <3>2. \A c \in active : \E i \in 1 .. Total : c.case = TestCases[i]
      BY <2>2, <2>3 DEF Taken
    <3>3. \A i \in Total + 1 .. Total : FALSE
      BY <2>3
    <3> HIDE DEF Total
    <3> QED BY <2>1, <3>1, <3>2, <3>3 DEF Taken
  <2>5. QueuePlace' /\ AnsweredOf'
    BY <2>1 DEF QueueInv, QueuePlace, AnsweredOf
  <2> HIDE DEF Total
  <2> QED BY <2>1, <2>3, <2>4, <2>5 DEF QueueInv, FreshUnderControl
<1>5. ASSUME NEW over \in Overrides, NEW n \in 1 .. MaxStreams, TestsRun(over, n)
      PROVE  QueueInv' /\ FreshUnderControl
  <2>1. stage' = "warmup" /\ queue' = NewQueue /\ active' = {} /\ answered' = {}
    BY <1>5 DEF TestsRun
  <2>2. queue'.waiting = <<>> /\ ~queue'.attached
    BY <2>1 DEF NewQueue
  <2>3. AnsweredOf'
    BY <2>1 DEF AnsweredOf, InMode
  <2>4. QueueInv'
    BY <2>1, <2>2, <2>3, QueueRests
  <2> QED BY <2>1, <2>4 DEF FreshUnderControl
<1> QED BY <1>1, <1>2, <1>3, <1>4, <1>5

\* Every step of the benchmark keeps the types and the queue, and starts cases only
\* where it may.
LEMMA QueueKept ==
  ASSUME TypeInv, QueueInv, BenchStep
  PROVE  TypeInv' /\ QueueInv' /\ FreshUnderControl
<1>1. ASSUME CaseStep
      PROVE  TypeInv' /\ QueueInv' /\ FreshUnderControl
  <2>1. PICK c \in active : Answered(c) \/ CaseThrows(c) \/ CaseReturns(c)
    BY <1>1 DEF CaseStep
  <2>2. stage = "cases"
    BY <2>1 DEF QueueInv, QueuePlace
  <2> QED BY <1>1, <2>1, <2>2, CasesKeepTypes, IsAnswered, Throws, Returns DEF TypeInv
<1>2. CASE RunStep
  BY <1>2, RunKeepsTypes, RunKeepsQueue DEF TypeInv
<1>3. CASE ReportStep \/ DiskFails
  BY <1>3, ChainKeepsTypes, MethodsKeepQueue DEF TypeInv
<1>4. ASSUME NEW n \in 1 .. MaxStreams, TestsResume(n)
      PROVE  TypeInv' /\ QueueInv' /\ FreshUnderControl
  BY <1>4, MethodsKeepTypes, Resumes DEF TypeInv
<1>5. CASE \/ Reload \/ Crash \/ TestsPause \/ JobCancel
           \/ (\E over \in Overrides, n \in 1 .. MaxStreams : TestsRun(over, n))
           \/ UNCHANGED benchVars
  BY <1>5, MethodsKeepTypes, MethodsKeepQueue DEF TypeInv
<1> QED BY <1>1, <1>2, <1>3, <1>4, <1>5 DEF BenchStep

\* At first nothing is queued.
LEMMA QueueStarts == InitBench => QueueInv
<1> SUFFICES ASSUME InitBench PROVE QueueInv
  OBVIOUS
<1>1. /\ stage = "idle" /\ queue = [waiting |-> <<>>, attached |-> FALSE] /\ active = {} /\ answered = {}
  BY DEF InitBench, NewQueue
<1>2. Total \in Nat /\ SubSeq(TestCases, Total + 1, Total) = <<>>
  BY CasesAreListed, SubSeqEmpty DEF Total
<1> HIDE DEF Total
<1>3. Taken(Total)
  BY <1>1, <1>2 DEF Taken
<1> QED BY <1>1, <1>2, <1>3 DEF QueueInv, QueuePlace, AnsweredOf, InMode

\* What a step of the panel does to the benchmark is one step of it, or none.
LEMMA BeginsBench ==
  ASSUME NEW i, StepBegins(i)
  PROVE  BenchStep
<1>1. CASE Plan[i] = "tests"
  BY <1>1 DEF StepBegins, BenchStep
<1>2. CASE Plan[i] # "tests"
  BY <1>2 DEF StepBegins, BenchStep
<1> QED BY <1>1, <1>2

\* The answer to a step ends the run of the panel, or begins the next step.
LEMMA AnswerIs ==
  ASSUME StepAnswered
  PROVE  /\ step # 0 /\ Job \in Ends /\ UNCHANGED <<stop, controls>>
         /\ \E es : /\ es = [entries EXCEPT ![step] = Status(Job)]
                    /\ \/ es[step] = "error" /\ RunEnds("failed", es)
                       \/ (es[step] = "cancelled" \/ stop) /\ RunEnds("cancelled", es)
                       \/ es[step] = "done" /\ ~stop /\ step = Len(Plan) /\ RunEnds("done", es)
                       \/ /\ es[step] \notin {"error", "cancelled"} /\ ~stop
                          /\ es[step] = "done" => step # Len(Plan)
                          /\ entries' = [es EXCEPT ![step + 1] = "running"] /\ state' = state
                          /\ StepBegins(step + 1)
<1>1. PICK es : es = [entries EXCEPT ![step] = Status(Job)]
  OBVIOUS
<1>2. /\ step # 0 /\ Job \in Ends /\ UNCHANGED <<stop, controls>>
      /\ CASE es[step] = "error" -> RunEnds("failed", es)
          [] es[step] = "cancelled" \/ stop -> RunEnds("cancelled", es)
          [] es[step] = "done" /\ ~stop /\ step = Len(Plan) -> RunEnds("done", es)
          [] OTHER -> /\ entries' = [es EXCEPT ![step + 1] = "running"]
                      /\ state' = state
                      /\ StepBegins(step + 1)
  BY <1>1 DEF StepAnswered
<1>3. \/ es[step] = "error" /\ RunEnds("failed", es)
      \/ (es[step] = "cancelled" \/ stop) /\ RunEnds("cancelled", es)
      \/ es[step] = "done" /\ ~stop /\ step = Len(Plan) /\ RunEnds("done", es)
      \/ /\ es[step] \notin {"error", "cancelled"} /\ ~stop
         /\ es[step] = "done" => step # Len(Plan)
         /\ entries' = [es EXCEPT ![step + 1] = "running"] /\ state' = state
         /\ StepBegins(step + 1)
  BY <1>2
<1> QED BY <1>1, <1>2, <1>3

\* A step of the whole is a step of the benchmark, or leaves it alone.
LEMMA BenchPart == [Next]_vars => BenchStep
<1> SUFFICES ASSUME [Next]_vars PROVE BenchStep
  OBVIOUS
<1>1. CASE Start
  BY <1>1, BeginsBench DEF Start
<1>2. CASE StepAnswered
  <2>1. PICK es : \/ RunEnds("failed", es) \/ RunEnds("cancelled", es) \/ RunEnds("done", es)
                  \/ StepBegins(step + 1)
    BY <1>2, AnswerIs
  <2> QED BY <2>1, BeginsBench DEF RunEnds, BenchStep
<1>3. CASE CancelHandled
  BY <1>3 DEF CancelHandled, BenchStep
<1>4. CASE PauseOp
  BY <1>4 DEF PauseOp, BenchStep
<1>5. CASE \E n \in 1 .. MaxStreams : ResumeOp(n)
  BY <1>5 DEF ResumeOp, BenchStep
<1>6. CASE ServerStep /\ UNCHANGED <<panelVars, jobVars, controls>>
  BY <1>6 DEF ServerStep, BenchStep
<1>7. CASE Stop \/ ProgressArrives \/ CancelAnswered \/ PipelineEnds("ok") \/ PipelineEnds("failed")
  BY <1>7 DEF Stop, ProgressArrives, CancelAnswered, PipelineEnds, BenchStep
<1>8. CASE UNCHANGED vars
  BY <1>8 DEF vars, BenchStep
<1> QED BY <1>1, <1>2, <1>3, <1>4, <1>5, <1>6, <1>7, <1>8 DEF Next

\* A case starts only where it may, and runs under the settings of its mode, or
\* under those of a reload within it.
ControlStep ==
  \A c \in active' :
    c.at = "engine" =>
      /\ c \notin active => ~control.paused' /\ Cardinality(active') <= control.limit'
      /\ \/ rag' = at'
         \/ stage = "cases" /\ rag' = FileSettings /\ (rag = FileSettings \/ Reload)

\* The settings of a mode are its own, and only a reload replaces them.
LEMMA SettingsHold ==
  ASSUME TypeInv, QueueInv, BenchStep, stage' = "cases"
  PROVE  \/ rag' = at'
         \/ stage = "cases" /\ rag' = FileSettings /\ (rag = FileSettings \/ Reload)
<1>1. CASE stage = "cases" /\ rag' = rag /\ at' = at
  BY <1>1 DEF QueueInv, QueuePlace
<1>2. CASE Reload
  BY <1>2 DEF Reload
<1>3. CASE RunStep
  <2>1. CASE ModeBegins
    BY <2>1 DEF ModeBegins
  <2>2. CASE ~ModeBegins
    <3>1. stage' # "cases"
      BY <1>3, <2>2 DEF RunStep, Warmed, WarmupFails, QueueThrows, ModeEnds, NextMode, BeginMode, Closes,
            CloseFails, UnlinkFails, Unlinks, ReportFails, PutAway, PutAwayFails, Finally, TypeInv, RunTypes
    <3> QED BY <3>1
  <2> QED BY <2>1, <2>2
<1>4. CASE CaseStep \/ ReportStep \/ DiskFails \/ TestsPause \/ JobCancel \/ UNCHANGED benchVars
  <2>1. UNCHANGED <<stage, rag, at>>
    BY <1>4 DEF CaseStep, Answered, CaseThrows, CaseReturns, ReportStep, WriteChain, PublishChain, DiskFails,
          TestsPause, JobCancel, benchVars
  <2> QED BY <1>1, <2>1
<1>5. CASE \E n \in 1 .. MaxStreams : TestsResume(n)
  BY <1>1, <1>5 DEF TestsResume
<1>6. CASE Crash \/ \E over \in Overrides, n \in 1 .. MaxStreams : TestsRun(over, n)
  BY <1>6 DEF Crash, TestsRun
<1> QED BY <1>2, <1>3, <1>4, <1>5, <1>6 DEF BenchStep

\* How a run ends: cancelled when the signal was raised, and with a
\* report when it says so.
EndInv ==
  /\ stage = "cancelled" \/ outcome = "cancelled" => aborted
  /\ stage \in {"unlink", "ok"} => disk.final # NoFile

\* What a step of the server leaves alone.
Settled ==
  /\ stage \in Ends \cup {"idle"} => stage' = stage /\ rag' = rag /\ disk'.final = disk.final
  /\ stage' # "idle" \/ stage = "idle"

\* The finally of runRagTests ends a run as it should.
LEMMA FinallyEnds ==
  ASSUME TypeInv, EndInv, NEW how \in {"ok", "cancelled", "failed"}, Finally(how),
         how = "cancelled" => aborted, how = "ok" => disk'.final # NoFile, aborted' = aborted,
         stage \notin Ends \cup {"idle"}
  PROVE  EndInv' /\ Settled
<1>1. rag' = UserSettings /\ outcome' = how /\ stage' \in {how, "abort"}
  BY DEF Finally
<1> QED BY <1>1 DEF EndInv, Settled

\* A step of runRagTests that ends the run says how it ended.
LEMMA RunEndsWell ==
  ASSUME TypeInv, EndInv, RunStep
  PROVE  EndInv' /\ Settled
<1>1. disk \in Files
  BY DEF TypeInv, ReportTypes
<1>2. CASE Warmed \/ ModeBegins \/ ModeEnds \/ NextMode
  <2>1. /\ stage \in {"warmup", "begin", "cases", "end"} /\ stage' \in {"begin", "cases", "end"}
        /\ aborted' = aborted /\ outcome' = outcome
    BY <1>2 DEF Warmed, ModeBegins, ModeEnds, NextMode, BeginMode, queueVars
  <2> QED BY <2>1 DEF EndInv, Settled, Ends
<1>3. CASE WarmupFails \/ ReportFails
  <2>1. Finally("failed") /\ aborted' = aborted /\ stage \in {"warmup", "begin", "end"}
    BY <1>3 DEF WarmupFails, ReportFails, queueVars
  <2> QED BY <2>1, FinallyEnds DEF Ends
<1>4. CASE QueueThrows
  <2>1. PICK how : how = IF aborted THEN "cancelled" ELSE "failed"
    OBVIOUS
  <2>2. Finally(how) /\ aborted' = aborted /\ stage = "cases"
    BY <1>4, <2>1 DEF QueueThrows
  <2>3. how \in {"ok", "cancelled", "failed"} /\ how # "ok" /\ (how = "cancelled" => aborted)
    BY <2>1, <1>1 DEF TypeInv, RunTypes
  <2> QED BY <2>2, <2>3, FinallyEnds DEF Ends
<1>5. CASE Closes
  <2>1. /\ disk' = [disk EXCEPT !.final = Append(disk.working, Chunk("footer", 0, 0)), !.working = NoFile]
        /\ stage = "end" /\ stage' = "unlink" /\ outcome' = outcome /\ aborted' = aborted
    BY <1>5 DEF Closes, queueVars
  <2>2. disk.working \in Seq(Words) /\ Chunk("footer", 0, 0) \in Words
    BY <1>1, FileTypes, WordTypes DEF Kinds
  <2>3. Append(disk.working, Chunk("footer", 0, 0)) # NoFile /\ Append(disk.working, Chunk("footer", 0, 0)) \in Seq(Words)
    BY <2>2, AppendProperties DEF NoFile
  <2>4. disk'.final = Append(disk.working, Chunk("footer", 0, 0))
    BY <1>1, <2>1, <2>3, FileTypes
  <2> QED BY <2>1, <2>3, <2>4 DEF EndInv, Settled, Ends
<1>6. CASE CloseFails \/ UnlinkFails
  BY <1>6 DEF CloseFails, UnlinkFails, EndInv, Settled, Ends, queueVars
<1>7. CASE Unlinks
  <2>1. /\ disk' = [disk EXCEPT !.partial = NoSnapshot] /\ Finally("ok") /\ stage = "unlink"
        /\ aborted' = aborted
    BY <1>7 DEF Unlinks, queueVars
  <2>2. disk'.final = disk.final
    BY <1>1, <2>1, FileTypes
  <2> QED BY <2>1, <2>2, FinallyEnds DEF Ends, EndInv
<1>8. CASE PutAway \/ PutAwayFails
  <2>1. /\ stage = "abort" /\ stage' \in {outcome, "failed"} /\ outcome' = outcome /\ aborted' = aborted /\ rag' = rag
    BY <1>8 DEF PutAway, PutAwayFails, queueVars
  <2>2. outcome \in {"cancelled", "failed"}
    BY <2>1 DEF TypeInv, RunTypes
  <2> QED BY <2>1, <2>2 DEF EndInv, Settled, Ends
<1> QED BY <1>2, <1>3, <1>4, <1>5, <1>6, <1>7, <1>8 DEF RunStep

\* So does every step of the server, and none raises the signal.
LEMMA ServerEndsWell ==
  ASSUME TypeInv, QueueInv, EndInv, ServerStep
  PROVE  EndInv' /\ Settled /\ aborted' = aborted
<1>1. disk \in Files
  BY DEF TypeInv, ReportTypes
<1>2. CASE RunStep
  <2>1. aborted' = aborted
    BY <1>2 DEF RunStep, Warmed, WarmupFails, ModeBegins, QueueThrows, ModeEnds, NextMode, Closes,
                CloseFails, UnlinkFails, Unlinks, ReportFails, PutAway, PutAwayFails, queueVars
  <2> QED BY <1>2, <2>1, RunEndsWell
<1>3. CASE CaseStep
  <2>1. stage = "cases" /\ stage' = stage /\ outcome' = outcome /\ aborted' = aborted
    BY <1>3 DEF CaseStep, Answered, CaseThrows, CaseReturns, QueueInv, QueuePlace
  <2> QED BY <2>1 DEF EndInv, Settled, Ends
<1>4. CASE ReportStep \/ DiskFails
  <2>1. stage' = stage /\ outcome' = outcome /\ aborted' = aborted /\ rag' = rag
    BY <1>4 DEF ReportStep, WriteChain, PublishChain, DiskFails, queueVars
  <2>2. disk'.final = disk.final
    BY <1>1, <1>4 DEF ReportStep, WriteChain, PublishChain, DiskFails, Files
  <2> QED BY <2>1, <2>2 DEF EndInv, Settled
<1>5. CASE Reload
  BY <1>5 DEF Reload, Running, EndInv, Settled, reportVars, queueVars
<1>6. CASE Crash
  BY <1>6 DEF Crash, Running, EndInv, Settled
<1> QED BY <1>2, <1>3, <1>4, <1>5, <1>6 DEF ServerStep

-----------------------------------------------------------------------------
PanelTypes ==
  /\ state \in {"idle", "running", "done", "cancelled", "failed"}
  /\ entries \in [Steps -> {"pending", "running", "done", "cancelled", "error", "skipped"}]
  /\ stop \in BOOLEAN /\ step \in 0 .. Len(Plan)
  /\ op \in [id : BOOLEAN, asked : BOOLEAN, ack : BOOLEAN]
  /\ request \in {"none", "sent", "accepted", "refused"}
  /\ jobs \in [Steps -> Ends \cup {"none", "running", "aborted"}]
  /\ bench \in {0} \cup Steps /\ reports \subseteq Steps

\* The benchmark is that of a step, and a benchmark that ended well left a report.
BenchInv ==
  /\ (bench = 0) = (stage = "idle")
  /\ bench # 0 => Plan[bench] = "tests"
  /\ \A i \in Steps : Plan[i] = "tests" /\ JobOf(i) = "ok" => Reported(i)

\* The list agrees with the jobs, step by step.
EntryTrue(i) ==
  /\ entries[i] = "done" => JobOf(i) = "ok"
  /\ entries[i] = "error" => JobOf(i) \in {"failed", "dead"} /\ ~stop /\ state = "failed"
  /\ entries[i] = "cancelled" => JobOf(i) \in {"cancelled", "failed", "dead"} /\ stop
  /\ entries[i] \in {"pending", "skipped"} => JobOf(i) = "none"
  /\ (entries[i] = "running") = (i = step)

\* Only the step in progress has a job that goes on.
JobsInv ==
  /\ (state = "running") = (step # 0)
  /\ \A i \in Steps : EntryTrue(i)
  /\ stage \notin Ends \cup {"idle"} => step # 0 /\ step = bench

\* Nothing is cancelled that the user did not stop.
StopInv ==
  /\ request # "none" \/ aborted => stop
  /\ \A i \in Steps : jobs[i] \in {"aborted", "cancelled"} => stop

PanelInv == PanelTypes /\ BenchInv /\ JobsInv /\ StopInv /\ EndInv

\* The panel begins with nothing done.
LEMMA PanelStarts == Init => PanelInv
<1> SUFFICES ASSUME Init PROVE PanelInv
  OBVIOUS
<1>1. /\ state = "idle" /\ entries = [i \in Steps |-> "pending"]
      /\ stop = FALSE /\ step = 0 /\ op = NoOp /\ request = "none"
      /\ jobs = [i \in Steps |-> "none"] /\ bench = 0 /\ reports = {}
      /\ stage = "idle" /\ outcome = "none" /\ aborted = FALSE
  BY DEF Init, InitBench
<1>2. Len(Plan) \in Nat /\ Steps = 1 .. Len(Plan)
  BY StepsAreListed
<1>3. PanelTypes
  <2>1. entries \in [Steps -> {"pending", "running", "done", "cancelled", "error", "skipped"}]
    BY <1>1
  <2>2. jobs \in [Steps -> Ends \cup {"none", "running", "aborted"}] /\ bench \in {0} \cup Steps /\ reports \subseteq Steps
    BY <1>1
  <2>3. op \in [id : BOOLEAN, asked : BOOLEAN, ack : BOOLEAN]
    BY <1>1 DEF NoOp
  <2>4. state \in {"idle", "running", "done", "cancelled", "failed"} /\ stop \in BOOLEAN
    BY <1>1
  <2>5. step \in 0 .. Len(Plan) /\ request \in {"none", "sent", "accepted", "refused"}
    BY <1>1, <1>2
  <2> QED BY <2>1, <2>2, <2>3, <2>4, <2>5 DEF PanelTypes
<1>4. \A i \in Steps : EntryTrue(i)
  BY <1>1, <1>2 DEF EntryTrue, JobOf
<1>5. JobsInv /\ StopInv /\ EndInv /\ BenchInv
  BY <1>1, <1>2, <1>4 DEF JobsInv, StopInv, EndInv, BenchInv, JobOf
<1> QED BY <1>3, <1>5 DEF PanelInv

\* The job of the step in progress, once it has ended.
LEMMA StepJob ==
  ASSUME PanelInv, step # 0
  PROVE  step \in Steps /\ Job = JobOf(step)
<1>1. step \in Steps
  BY StepsAreListed DEF PanelInv, PanelTypes
<1> QED BY <1>1 DEF Job

\* How a run begins its next step.
LEMMA BeginsWell ==
  ASSUME PanelInv, TypeInv, NEW i \in Steps, StepBegins(i),
         entries' \in [Steps -> {"pending", "running", "done", "cancelled", "error", "skipped"}],
         state' = "running", stop' = stop,
         stage \in Ends \cup {"idle"},
         entries'[i] = "running",
         \A j \in Steps \ {i} : /\ entries'[j] \notin {"error", "running"}
                                /\ entries'[j] = "done" => JobOf(j) = "ok"
                                /\ entries'[j] = "cancelled" => JobOf(j) \in {"cancelled", "failed", "dead"} /\ stop
                                /\ entries'[j] \in {"pending", "skipped"} => JobOf(j) = "none"
  PROVE  PanelInv'
<1>1. step' = i /\ op' = NoOp /\ request' = "none" /\ i # 0 /\ i \in 0 .. Len(Plan)
  BY StepsAreListed DEF StepBegins
<1>2. \A j \in Steps : Plan[j] \in {"pipeline", "tests"}
  BY StepsAreListed
<1>3. /\ bench \in {0} \cup Steps /\ (bench = 0) = (stage = "idle") /\ (bench # 0 => Plan[bench] = "tests")
      /\ \A j \in Steps : Plan[j] = "tests" /\ JobOf(j) = "ok" => Reported(j)
  BY DEF PanelInv, PanelTypes, BenchInv
<1>4. ASSUME \A j \in Steps \ {i} : JobOf(j)' = JobOf(j), stop' = stop
      PROVE  \A j \in Steps : EntryTrue(j)'
  <2>1. ASSUME NEW j \in Steps
        PROVE  EntryTrue(j)'
    <3>1. CASE j = i
      BY <3>1, <1>1 DEF EntryTrue
    <3>2. CASE j # i
      BY <3>2, <1>1, <1>4 DEF EntryTrue
    <3> QED BY <3>1, <3>2
  <2> QED BY <2>1
<1>5. CASE Plan[i] = "tests"
  <2>1. /\ stage' = "warmup" /\ outcome' = "none" /\ aborted' = FALSE /\ bench' = i
        /\ jobs' = [j \in Steps |-> JobOf(j)] /\ reports' = {j \in Steps : Reported(j)}
    BY <1>5 DEF StepBegins, TestsRun
  <2>2. EndInv'
    BY <2>1 DEF EndInv
  <2>3. \A j \in Steps : JobOf(j) \in Ends \cup {"none", "running", "aborted"}
                         /\ (JobOf(j) \in {"aborted", "cancelled"} => stop)
    <3> TAKE j \in Steps
    <3>1. CASE j = bench
      <4>1. stage \in Ends /\ JobOf(j) = stage
        BY <1>1, <1>3, <3>1, StepsAreListed DEF JobOf
      <4> QED BY <4>1 DEF Ends, PanelInv, EndInv, StopInv
    <3>2. CASE j # bench
      BY <3>2 DEF JobOf, PanelInv, PanelTypes, StopInv
    <3> QED BY <3>1, <3>2
  <2>4. StopInv'
    BY <1>1, <2>1, <2>3 DEF PanelInv, StopInv
  <2>5. PanelTypes'
    BY <1>1, <2>1, <2>3 DEF PanelInv, PanelTypes, NoOp
  <2>6. \A j \in Steps \ {i} : JobOf(j)' = JobOf(j) /\ (Reported(j) => Reported(j)')
    BY <2>1 DEF JobOf, Reported
  <2>7. JobsInv'
    BY <1>1, <1>4, <2>1, <2>6 DEF JobsInv
  <2>8. BenchInv'
    <3>1. JobOf(i)' = "warmup"
      BY <2>1 DEF JobOf
    <3>2. \A j \in Steps : Plan[j] = "tests" /\ JobOf(j)' = "ok" => Reported(j)'
      BY <1>3, <2>6, <3>1
    <3> QED BY <1>1, <1>5, <2>1, <3>2 DEF BenchInv
  <2> QED BY <2>2, <2>4, <2>5, <2>7, <2>8 DEF PanelInv
<1>6. CASE Plan[i] # "tests"
  <2>1. /\ jobs' = [jobs EXCEPT ![i] = "running"] /\ UNCHANGED <<bench, reports, stage, outcome, aborted, disk>>
    BY <1>6 DEF StepBegins, benchVars, queueVars, reportVars
  <2>2. EndInv'
    BY <2>1 DEF PanelInv, EndInv
  <2>3. StopInv'
    BY <1>1, <2>1 DEF PanelInv, PanelTypes, StopInv
  <2>4. PanelTypes'
    BY <1>1, <2>1 DEF PanelInv, PanelTypes, NoOp
  <2>5. \A j \in Steps \ {i} : JobOf(j)' = JobOf(j)
    BY <2>1 DEF JobOf, PanelInv, PanelTypes
  <2>6. JobsInv'
    BY <1>1, <1>4, <2>1, <2>5 DEF JobsInv
  <2>7. BenchInv'
    <3>1. \A j \in Steps : Reported(j)' = Reported(j)
      BY <2>1 DEF Reported
    <3>2. \A j \in Steps : Plan[j] = "tests" /\ JobOf(j)' = "ok" => Reported(j)'
      BY <1>3, <1>6, <2>5, <3>1
    <3> QED BY <1>3, <2>1, <3>2 DEF BenchInv
  <2> QED BY <2>2, <2>3, <2>4, <2>6, <2>7 DEF PanelInv
<1> QED BY <1>5, <1>6

Shown == {"pending", "running", "done", "cancelled", "error", "skipped"}

\* A step of the panel that leaves the list and the jobs alone.
LEMMA ListRests ==
  ASSUME PanelInv, UNCHANGED <<benchVars, state, entries, step, jobVars>>,
         stop' = stop \/ (stop' /\ state = "running"), stop' \in BOOLEAN,
         op' \in [id : BOOLEAN, asked : BOOLEAN, ack : BOOLEAN],
         request' \in {"none", "sent", "accepted", "refused"}, request' # "none" => stop'
  PROVE  PanelInv'
<1>1. UNCHANGED <<stage, outcome, aborted, disk, state, entries, step, jobs, bench, reports>>
  BY DEF benchVars, queueVars, reportVars, jobVars
<1>2. PanelTypes'
  BY <1>1 DEF PanelInv, PanelTypes
<1>3. stop => stop'
  BY DEF PanelInv, PanelTypes
<1>4. EndInv' /\ StopInv' /\ BenchInv'
  BY <1>1, <1>3 DEF PanelInv, EndInv, StopInv, BenchInv, JobOf, Reported
<1>5. ASSUME NEW i \in Steps
      PROVE  EntryTrue(i)'
  <2>1. EntryTrue(i)
    BY DEF PanelInv, JobsInv
  <2>2. entries[i] = "error" => ~stop'
    BY <2>1 DEF EntryTrue
  <2> QED BY <1>1, <1>3, <2>1, <2>2 DEF EntryTrue, JobOf
<1>6. JobsInv'
  BY <1>1, <1>5 DEF PanelInv, JobsInv
<1> QED BY <1>2, <1>4, <1>6 DEF PanelInv

\* What is not begun is skipped.
LEMMA EndsWell ==
  ASSUME PanelInv, NEW how \in {"done", "cancelled", "failed"}, NEW es \in [Steps -> Shown],
         RunEnds(how, es), stop' = stop,
         step # 0, Job \in Ends,
         es[step] \in {"done", "error", "cancelled"},
         es[step] = "error" => how = "failed",
         \A i \in Steps : i # step => es[i] = entries[i],
         es[step] = "done" => Job = "ok",
         es[step] = "error" => Job \in {"failed", "dead"} /\ ~stop,
         es[step] = "cancelled" => Job \in {"cancelled", "failed", "dead"} /\ stop
  PROVE  PanelInv'
<1>1. /\ state' = how /\ step' = 0 /\ op' = op /\ request' = "none"
      /\ entries' = [i \in Steps |-> IF es[i] = "pending" THEN "skipped" ELSE es[i]]
      /\ UNCHANGED <<stage, outcome, aborted, disk, jobs, bench, reports>>
  BY DEF RunEnds, benchVars, queueVars, reportVars, jobVars
<1>2. step \in Steps /\ Job = JobOf(step) /\ 0 \notin Steps /\ 0 \in 0 .. Len(Plan)
  BY StepJob, StepsAreListed
<1>3. PanelTypes'
  <2>1. entries' \in [Steps -> Shown]
    BY <1>1 DEF Shown
  <2> QED BY <1>1, <1>2, <2>1 DEF PanelInv, PanelTypes, Shown
<1>4. EndInv' /\ StopInv' /\ BenchInv'
  BY <1>1 DEF PanelInv, EndInv, StopInv, BenchInv, JobOf, Reported
<1>5. ASSUME NEW i \in Steps
      PROVE  EntryTrue(i)'
  <2>1. EntryTrue(i) /\ JobOf(i)' = JobOf(i)
    BY <1>1 DEF PanelInv, JobsInv, JobOf
  <2>2. CASE i = step
    <3>1. entries'[i] = es[i]
      BY <1>1, <2>2
    <3> QED BY <1>1, <1>2, <2>1, <2>2, <3>1 DEF EntryTrue
  <2>3. CASE i # step
    <3>1. entries'[i] = IF entries[i] = "pending" THEN "skipped" ELSE entries[i]
      BY <1>1, <2>3
    <3>2. entries[i] # "error"
      BY <2>1 DEF EntryTrue, PanelInv, JobsInv
    <3> QED BY <1>1, <1>2, <2>1, <2>3, <3>1, <3>2 DEF EntryTrue
  <2> QED BY <2>2, <2>3
<1>6. stage \in Ends \cup {"idle"}
  BY <1>2 DEF JobOf, PanelInv, JobsInv
<1>7. JobsInv'
  BY <1>1, <1>5, <1>6 DEF JobsInv
<1> QED BY <1>3, <1>4, <1>7 DEF PanelInv

\* The run of the panel begins.
LEMMA StartsWell ==
  ASSUME PanelInv, TypeInv, Start
  PROVE  PanelInv'
<1>1. /\ state = "idle" /\ state' = "running" /\ entries' = [entries EXCEPT ![1] = "running"]
      /\ StepBegins(1) /\ stop' = stop
  BY DEF Start
<1>2. 1 \in Steps /\ 0 \notin Steps
  BY StepsAreListed
<1>3. step = 0 /\ stage \in Ends \cup {"idle"} /\ \A i \in Steps : EntryTrue(i)
  BY <1>1 DEF PanelInv, JobsInv
<1>4. entries \in [Steps -> Shown]
  BY DEF PanelInv, PanelTypes, Shown
<1>5. entries' \in [Steps -> Shown] /\ entries'[1] = "running" /\ \A j \in Steps \ {1} : entries'[j] = entries[j]
  BY <1>1, <1>2, <1>4 DEF Shown
<1>6. ASSUME NEW j \in Steps \ {1}
      PROVE  /\ entries'[j] \notin {"error", "running"}
             /\ entries'[j] = "done" => JobOf(j) = "ok"
             /\ entries'[j] = "cancelled" => JobOf(j) \in {"cancelled", "failed", "dead"} /\ stop
             /\ entries'[j] \in {"pending", "skipped"} => JobOf(j) = "none"
  <2>1. EntryTrue(j) /\ entries'[j] = entries[j] /\ j # step
    BY <1>2, <1>3, <1>5
  <2> QED BY <1>1, <2>1 DEF EntryTrue
<1> QED BY <1>1, <1>2, <1>3, <1>5, <1>6, BeginsWell DEF Shown

\* The answer to a step is entered in the list.
LEMMA AnswersWell ==
  ASSUME PanelInv, TypeInv, StepAnswered
  PROVE  PanelInv'
<1>1. step # 0 /\ Job \in Ends /\ UNCHANGED <<stop, controls>>
  BY AnswerIs
<1>2. PICK es :
         /\ es = [entries EXCEPT ![step] = Status(Job)]
         /\ \/ es[step] = "error" /\ RunEnds("failed", es)
            \/ (es[step] = "cancelled" \/ stop) /\ RunEnds("cancelled", es)
            \/ es[step] = "done" /\ ~stop /\ step = Len(Plan) /\ RunEnds("done", es)
            \/ /\ es[step] \notin {"error", "cancelled"} /\ ~stop
               /\ es[step] = "done" => step # Len(Plan)
               /\ entries' = [es EXCEPT ![step + 1] = "running"] /\ state' = state
               /\ StepBegins(step + 1)
  BY AnswerIs
<1>3. step \in Steps /\ Job = JobOf(step) /\ Steps = 1 .. Len(Plan) /\ Len(Plan) \in Nat
  BY <1>1, StepJob, StepsAreListed
<1>4. entries \in [Steps -> Shown]
  BY DEF PanelInv, PanelTypes, Shown
<1>5. Job = "cancelled" => stop
  BY <1>3 DEF JobOf, PanelInv, StopInv, EndInv
<1>6. /\ Status(Job) \in {"done", "error", "cancelled"}
      /\ Status(Job) = "done" => Job = "ok"
      /\ Status(Job) = "error" => Job \in {"failed", "dead"} /\ ~stop
      /\ Status(Job) = "cancelled" => Job \in {"cancelled", "failed", "dead"} /\ stop
  BY <1>1, <1>5 DEF Status, Ends
<1>7. es \in [Steps -> Shown] /\ es[step] = Status(Job) /\ \A i \in Steps : i # step => es[i] = entries[i]
  BY <1>2, <1>3, <1>4, <1>6 DEF Shown
<1>8. CASE es[step] = "error" /\ RunEnds("failed", es)
  <2>1. PICK how : how = "failed"
    OBVIOUS
  <2> QED BY <1>1, <1>6, <1>7, <1>8, <2>1, EndsWell
<1>9. CASE (es[step] = "cancelled" \/ stop) /\ RunEnds("cancelled", es)
  <2>1. PICK how : how = "cancelled"
    OBVIOUS
  <2>2. es[step] # "error"
    BY <1>6, <1>7, <1>9
  <2> QED BY <1>1, <1>6, <1>7, <1>9, <2>1, <2>2, EndsWell
<1>10. CASE es[step] = "done" /\ ~stop /\ step = Len(Plan) /\ RunEnds("done", es)
  <2>1. PICK how : how = "done"
    OBVIOUS
  <2> QED BY <1>1, <1>6, <1>7, <1>10, <2>1, EndsWell
<1>11. CASE /\ es[step] \notin {"error", "cancelled"} /\ ~stop
            /\ es[step] = "done" => step # Len(Plan)
            /\ entries' = [es EXCEPT ![step + 1] = "running"] /\ state' = state
            /\ StepBegins(step + 1)
  <2>1. PICK i : i = step + 1
    OBVIOUS
  <2>2. es[step] = "done" /\ Job = "ok" /\ step # Len(Plan) /\ i \in Steps /\ i # step
    BY <1>3, <1>6, <1>7, <1>11, <2>1
  <2>3. StepBegins(i) /\ state' = "running" /\ stop' = stop
    BY <1>1, <1>11, <2>1 DEF PanelInv, JobsInv
  <2>4. entries' \in [Steps -> Shown] /\ entries'[i] = "running" /\ \A j \in Steps \ {i} : entries'[j] = es[j]
    BY <1>7, <1>11, <2>1, <2>2 DEF Shown
  <2>5. stage \in Ends \cup {"idle"}
    BY <1>1, <1>3 DEF JobOf, PanelInv, JobsInv
  <2>6. ASSUME NEW j \in Steps \ {i}
        PROVE  /\ entries'[j] \notin {"error", "running"}
               /\ entries'[j] = "done" => JobOf(j) = "ok"
               /\ entries'[j] = "cancelled" => JobOf(j) \in {"cancelled", "failed", "dead"} /\ stop
               /\ entries'[j] \in {"pending", "skipped"} => JobOf(j) = "none"
    <3>1. EntryTrue(j) /\ state = "running"
      BY <2>3, <1>1 DEF PanelInv, JobsInv
    <3>2. CASE j = step
      BY <3>2, <2>2, <2>4, <1>3
    <3>3. CASE j # step
      <4>1. entries'[j] = entries[j]
        BY <3>3, <1>7, <2>4
      <4> QED BY <3>1, <3>3, <4>1 DEF EntryTrue
    <3> QED BY <3>2, <3>3
  <2>7. entries' \in [Steps -> {"pending", "running", "done", "cancelled", "error", "skipped"}]
    BY <2>4 DEF Shown
  <2> QED BY <2>2, <2>3, <2>4, <2>5, <2>6, <2>7, BeginsWell
<1> QED BY <1>2, <1>8, <1>9, <1>10, <1>11

\* The benchmark goes on, or is told to.
LEMMA BenchGoesOn ==
  ASSUME TypeInv, PanelInv, EndInv', UNCHANGED <<state, entries, stop, step, op, jobVars>>,
         request' \in {"none", "sent", "accepted", "refused"}, request' # "none" => stop,
         Settled, aborted' => stop
  PROVE  PanelInv'
<1>1. PanelTypes' /\ UNCHANGED <<jobs, bench, reports>>
  BY DEF PanelInv, PanelTypes, jobVars
<1>2. StopInv'
  BY <1>1 DEF PanelInv, StopInv
<1>3. ASSUME NEW i \in Steps
      PROVE  EntryTrue(i)'
  <2>1. EntryTrue(i)
    BY DEF PanelInv, JobsInv
  <2>2. CASE JobOf(i)' = JobOf(i)
    BY <2>1, <2>2 DEF EntryTrue
  <2>3. CASE i # bench \/ stage \in Ends \cup {"idle"}
    BY <1>1, <2>2, <2>3 DEF Settled, JobOf
  <2>4. CASE i = bench /\ stage \notin Ends \cup {"idle"}
    <3>1. entries[i] \notin {"done", "error", "cancelled", "pending", "skipped"}
      BY <2>1, <2>4 DEF EntryTrue, JobOf, Ends, TypeInv, RunTypes, Stages
    <3> QED BY <2>1, <3>1 DEF EntryTrue
  <2> QED BY <2>3, <2>4
<1>4. stage' \notin Ends \cup {"idle"} => step' # 0 /\ step' = bench'
  BY <1>1 DEF Settled, PanelInv, JobsInv
<1>5. BenchInv'
  <2>1. ASSUME NEW i \in Steps, Plan[i] = "tests", JobOf(i)' = "ok"
        PROVE  Reported(i)'
    <3>1. CASE i = bench
      BY <1>1, <2>1, <3>1 DEF JobOf, Reported, EndInv
    <3>2. CASE i # bench
      BY <1>1, <2>1, <3>2 DEF JobOf, Reported, PanelInv, BenchInv
    <3> QED BY <3>1, <3>2
  <2> QED BY <1>1, <2>1 DEF PanelInv, BenchInv, Settled
<1> QED BY <1>1, <1>2, <1>3, <1>4, <1>5 DEF PanelInv, JobsInv

\* The job of a pipeline step ends, or is told to.
LEMMA PipelineGoesOn ==
  ASSUME PanelInv, UNCHANGED <<benchVars, bench, reports, state, entries, stop, step, op>>,
         step # 0, Plan[step] # "tests", NEW v \in Ends \cup {"aborted"},
         jobs' = [jobs EXCEPT ![step] = v], v \in {"aborted", "cancelled"} => stop,
         request' \in {"none", "sent", "accepted", "refused"}, request' # "none" => stop
  PROVE  PanelInv'
<1>1. UNCHANGED <<stage, outcome, aborted, disk, bench, reports>>
  BY DEF benchVars, queueVars, reportVars
<1>2. step \in Steps
  BY StepJob
<1>3. jobs' \in [Steps -> Ends \cup {"none", "running", "aborted"}] /\ jobs'[step] = v
      /\ \A i \in Steps : i # step => jobs'[i] = jobs[i]
  BY <1>2 DEF PanelInv, PanelTypes
<1>4. PanelTypes'
  BY <1>1, <1>3 DEF PanelInv, PanelTypes
<1>5. EndInv' /\ StopInv' /\ BenchInv'
  BY <1>1, <1>3 DEF PanelInv, EndInv, StopInv, BenchInv, JobOf, Reported
<1>6. ASSUME NEW i \in Steps
      PROVE  EntryTrue(i)'
  <2>1. EntryTrue(i)
    BY DEF PanelInv, JobsInv
  <2>2. CASE i = step
    BY <2>1, <2>2 DEF EntryTrue
  <2>3. CASE i # step
    BY <1>1, <1>3, <2>1, <2>3 DEF EntryTrue, JobOf
  <2> QED BY <2>2, <2>3
<1>7. JobsInv'
  BY <1>1, <1>6 DEF PanelInv, JobsInv
<1> QED BY <1>4, <1>5, <1>7 DEF PanelInv

\* The record of an operation keeps its type.
LEMMA OpTypes ==
  ASSUME PanelTypes
  PROVE  /\ op \in [id : BOOLEAN, asked : BOOLEAN, ack : BOOLEAN]
         /\ \A b \in BOOLEAN : /\ [op EXCEPT !.asked = b] \in [id : BOOLEAN, asked : BOOLEAN, ack : BOOLEAN]
                               /\ [op EXCEPT !.id = b] \in [id : BOOLEAN, asked : BOOLEAN, ack : BOOLEAN]
                               /\ [op EXCEPT !.ack = b] \in [id : BOOLEAN, asked : BOOLEAN, ack : BOOLEAN]
<1> QED BY DEF PanelTypes

\* The user stops the run.
LEMMA StopsWell ==
  ASSUME PanelInv, Stop
  PROVE  PanelInv'
<1>1. /\ state = "running" /\ stop' = TRUE
      /\ \/ UNCHANGED <<op, request>>
         \/ op' = [op EXCEPT !.asked = TRUE] /\ request' \in {"sent", request}
      /\ UNCHANGED <<benchVars, state, entries, step, jobVars>>
  BY DEF Stop
<1>2. PanelTypes
  BY DEF PanelInv
<1>3. op' \in [id : BOOLEAN, asked : BOOLEAN, ack : BOOLEAN]
  BY <1>1, <1>2, OpTypes
<1>4. request' \in {"none", "sent", "accepted", "refused"}
  BY <1>1, <1>2 DEF PanelTypes
<1> QED BY <1>1, <1>3, <1>4, ListRests

\* A progress frame arrives, or the answer to job.cancel.
LEMMA HearsWell ==
  ASSUME PanelInv, ProgressArrives \/ CancelAnswered
  PROVE  PanelInv'
<1>1. PanelTypes
  BY DEF PanelInv
<1>2. CASE ProgressArrives
  <2>1. /\ op' = [op EXCEPT !.id = TRUE] /\ UNCHANGED <<benchVars, state, entries, stop, step, request, jobVars>>
    BY <1>2 DEF ProgressArrives
  <2>2. request' \in {"none", "sent", "accepted", "refused"} /\ (request' # "none" => stop') /\ stop' \in BOOLEAN
    BY <1>1, <2>1 DEF PanelTypes, PanelInv, StopInv
  <2>3. op' \in [id : BOOLEAN, asked : BOOLEAN, ack : BOOLEAN]
    BY <1>1, <2>1, OpTypes
  <2> QED BY <2>1, <2>2, <2>3, ListRests
<1>3. CASE CancelAnswered
  <2>1. /\ op' = [op EXCEPT !.ack = (request = "accepted")] /\ request' = "none"
        /\ UNCHANGED <<benchVars, state, entries, stop, step, jobVars>>
    BY <1>3 DEF CancelAnswered
  <2>2. (request = "accepted") \in BOOLEAN /\ stop' \in BOOLEAN
    BY <1>1, <2>1 DEF PanelTypes
  <2>3. op' \in [id : BOOLEAN, asked : BOOLEAN, ack : BOOLEAN]
    BY <1>1, <2>1, <2>2, OpTypes
  <2> QED BY <2>1, <2>2, <2>3, ListRests
<1> QED BY <1>2, <1>3

\* job.cancel is handled.
LEMMA CancelsWell ==
  ASSUME TypeInv, QueueInv, PanelInv, CancelHandled
  PROVE  PanelInv'
<1>1. /\ request = "sent" /\ stop
      /\ UNCHANGED <<state, entries, stop, step, op>>
      /\ \/ request' = "refused" /\ UNCHANGED <<jobVars, benchVars>>
         \/ request' = "accepted" /\ JobRuns /\ JobCancel /\ UNCHANGED jobVars
         \/ /\ request' = "accepted" /\ JobRuns /\ Plan[step] # "tests"
            /\ jobs' = [jobs EXCEPT ![step] = "aborted"] /\ UNCHANGED <<bench, reports, benchVars>>
  BY DEF CancelHandled, PanelInv, StopInv
<1>2. /\ op' \in [id : BOOLEAN, asked : BOOLEAN, ack : BOOLEAN] /\ stop' \in BOOLEAN
      /\ request' \in {"none", "sent", "accepted", "refused"}
  BY <1>1 DEF PanelInv, PanelTypes
<1>3. CASE request' = "refused" /\ UNCHANGED <<jobVars, benchVars>>
  BY <1>1, <1>2, <1>3, ListRests
<1>4. CASE JobCancel /\ UNCHANGED jobVars
  <2>1. UNCHANGED <<stage, outcome, rag, disk>> /\ aborted' = TRUE
    BY <1>4 DEF JobCancel, reportVars
  <2>2. EndInv' /\ Settled
    BY <2>1 DEF PanelInv, EndInv, Settled
  <2> QED BY <1>1, <1>2, <1>4, <2>2, BenchGoesOn
<1>5. CASE /\ JobRuns /\ Plan[step] # "tests"
           /\ jobs' = [jobs EXCEPT ![step] = "aborted"] /\ UNCHANGED <<bench, reports, benchVars>>
  <2>1. PICK v \in Ends \cup {"aborted"} : v = "aborted"
    OBVIOUS
  <2> QED BY <1>1, <1>2, <1>5, <2>1, PipelineGoesOn DEF JobRuns
<1> QED BY <1>1, <1>3, <1>4, <1>5

\* A pipeline step ends.
LEMMA PipelineEndsWell ==
  ASSUME PanelInv, NEW how \in {"ok", "failed"}, PipelineEnds(how)
  PROVE  PanelInv'
<1>1. PICK v : v = IF how = "ok" /\ jobs[step] = "aborted" THEN "cancelled" ELSE how
  OBVIOUS
<1>2. /\ step # 0 /\ Plan[step] # "tests" /\ jobs[step] \in {"running", "aborted"}
      /\ jobs' = [jobs EXCEPT ![step] = v] /\ UNCHANGED <<benchVars, bench, reports, state, entries, stop, step, op, request>>
  BY <1>1 DEF PipelineEnds, panelVars
<1>3. step \in Steps
  BY <1>2, StepJob
<1>4. v \in {"ok", "failed", "cancelled"} /\ (v = "cancelled" => stop)
  BY <1>1, <1>3 DEF PanelInv, StopInv
<1>5. v \in Ends \cup {"aborted"} /\ v # "aborted"
  BY <1>4 DEF Ends
<1>6. request' \in {"none", "sent", "accepted", "refused"} /\ (request' # "none" => stop)
  BY <1>2 DEF PanelInv, PanelTypes, StopInv
<1> QED BY <1>2, <1>4, <1>5, <1>6, PipelineGoesOn

\* Pausing and resuming end nothing.
LEMMA PauseEndsWell ==
  ASSUME EndInv, TestsPause \/ (\E n : TestsResume(n))
  PROVE  EndInv' /\ Settled /\ aborted' = aborted
<1>1. UNCHANGED <<stage, outcome, rag, disk, aborted>>
  BY DEF TestsPause, TestsResume, reportVars
<1> QED BY <1>1 DEF EndInv, Settled

\* Every step keeps the list and the jobs together.
LEMMA PanelKept ==
  ASSUME TypeInv, QueueInv, PanelInv, [Next]_vars
  PROVE  PanelInv'
<1>1. CASE Start
  BY <1>1, StartsWell
<1>2. CASE StepAnswered
  BY <1>2, AnswersWell
<1>3. CASE Stop \/ ProgressArrives \/ CancelAnswered
  BY <1>3, StopsWell, HearsWell
<1>4. CASE CancelHandled
  BY <1>4, CancelsWell
<1>5. CASE PipelineEnds("ok") \/ PipelineEnds("failed")
  <2>1. PICK how \in {"ok", "failed"} : PipelineEnds(how)
    BY <1>5
  <2> QED BY <2>1, PipelineEndsWell
<1>6. request \in {"none", "sent", "accepted", "refused"} /\ (request # "none" \/ aborted => stop)
  BY DEF PanelInv, PanelTypes, StopInv
<1>7. CASE ServerStep /\ UNCHANGED <<panelVars, jobVars, controls>>
  <2>1. EndInv' /\ Settled /\ aborted' = aborted
    BY <1>7, ServerEndsWell DEF PanelInv
  <2> QED BY <1>6, <1>7, <2>1, BenchGoesOn DEF panelVars
<1>8. CASE PauseOp \/ \E n \in 1 .. MaxStreams : ResumeOp(n)
  <2>1. TestsPause \/ (\E n : TestsResume(n))
    BY <1>8 DEF PauseOp, ResumeOp
  <2>2. UNCHANGED <<panelVars, jobVars>>
    BY <1>8 DEF PauseOp, ResumeOp
  <2>3. EndInv' /\ Settled /\ aborted' = aborted
    BY <2>1, PauseEndsWell DEF PanelInv
  <2> QED BY <1>6, <2>2, <2>3, BenchGoesOn DEF panelVars
<1>9. CASE UNCHANGED vars
  <2>1. UNCHANGED <<benchVars, state, entries, step, jobVars, stop, op, request>>
    BY <1>9 DEF vars, panelVars
  <2>2. op \in [id : BOOLEAN, asked : BOOLEAN, ack : BOOLEAN] /\ stop \in BOOLEAN
    BY DEF PanelInv, PanelTypes
  <2> QED BY <1>6, <2>1, <2>2, ListRests
<1> QED BY <1>1, <1>2, <1>3, <1>4, <1>5, <1>7, <1>8, <1>9 DEF Next

\* Then the list tells the truth.
LEMMA ListIsTrue ==
  ASSUME TypeInv, PanelInv
  PROVE  EntriesTellTruth
<1>1. ASSUME NEW i \in Steps
      PROVE  CASE entries[i] = "done" -> JobOf(i) = "ok" /\ (Plan[i] = "tests" => Reported(i))
               [] entries[i] = "error" -> JobOf(i) \in {"failed", "dead"} /\ ~stop
               [] entries[i] = "cancelled" -> JobOf(i) \in {"cancelled", "failed", "dead"} /\ stop
               [] entries[i] = "skipped" -> JobOf(i) = "none"
               [] OTHER -> TRUE
  <2>1. EntryTrue(i) /\ (Plan[i] = "tests" /\ JobOf(i) = "ok" => Reported(i))
    BY DEF PanelInv, JobsInv, BenchInv
  <2> QED BY <2>1 DEF EntryTrue
<1>2. ASSUME state \notin {"idle", "running"}
      PROVE  stage = "dead" \/ (stage \in Ends \cup {"idle"} /\ rag \in {UserSettings, FileSettings})
  <2>1. step = 0 /\ stage \in Ends \cup {"idle"}
    BY <1>2 DEF PanelInv, JobsInv
  <2> QED BY <2>1 DEF TypeInv, RunTypes, Before, Ends
<1> QED BY <1>1, <1>2 DEF EntriesTellTruth

\* The elements of a reversed list.
LEMMA ReverseIs ==
  ASSUME NEW S, NEW s \in Seq(S)
  PROVE  /\ Reverse(s) \in Seq(S) /\ Len(Reverse(s)) = Len(s)
         /\ \A i \in 1 .. Len(s) : Reverse(s)[i] = s[(Len(s) - i) + 1]
<1>1. PICK l : l = Len(s) /\ l \in Nat
  BY LenProperties
<1>2. Reverse(s) = [i \in 1 .. l |-> s[(l - i) + 1]]
  BY <1>1 DEF Reverse
<1>3. \A i \in 1 .. l : s[(l - i) + 1] \in S
  BY <1>1, ElementOfSeq
<1> HIDE <1>2
<1>4. Reverse(s) \in [1 .. l -> S]
  BY <1>2, <1>3
<1>5. Reverse(s) \in Seq(S) /\ Len(Reverse(s)) = l
  BY <1>1, <1>4, IsASeq, LenProperties
<1> QED BY <1>1, <1>2, <1>5

\* What has not left the queue is the end of the list.
LEMMA WaitingIsSuffix ==
  ASSUME NEW n \in 0 .. Total, NEW w, w = SubSeq(TestCases, n + 1, Total)
  PROVE  IsSuffix(w, TestCases)
<1>1. PICK R : R = Range(TestCases)
  OBVIOUS
<1>2. TestCases \in Seq(R) /\ Total \in Nat /\ Len(TestCases) = Total
  BY <1>1, CasesAreListed DEF Total
<1>3. w \in Seq(R) /\ Len(w) = Total - n /\ \A i \in 1 .. Len(w) : w[i] = TestCases[n + i]
  BY <1>1, RestOfRest
<1>4. PICK k \in Nat : k = Len(w) /\ k = Total - n /\ k <= Total
  BY <1>2, <1>3
<1>5. PICK a : a = Reverse(w)
  OBVIOUS
<1>6. PICK b : b = Reverse(TestCases)
  OBVIOUS
<1>7. a \in Seq(R) /\ Len(a) = k /\ \A i \in 1 .. k : a[i] = w[(k - i) + 1]
  <2>1. w \in Seq(R)
    BY <1>3
  <2>2. /\ Reverse(w) \in Seq(R) /\ Len(Reverse(w)) = Len(w)
        /\ \A i \in 1 .. Len(w) : Reverse(w)[i] = w[(Len(w) - i) + 1]
    BY ONLY <2>1, ReverseIs
  <2> QED BY ONLY <2>2, <1>4, <1>5
<1>8. b \in Seq(R) /\ Len(b) = Total /\ \A i \in 1 .. Total : b[i] = TestCases[(Total - i) + 1]
  BY <1>2, <1>6, ReverseIs
<1>9. SubSeq(a, 1, k) = a
  BY <1>7, SubSeqFull
<1>10. \A i \in 1 .. k : b[i] \in R
  BY <1>4, <1>8, ElementOfSeq
<1>11. PICK c : c = SubSeq(b, 1, k)
  OBVIOUS
<1>12. c \in Seq(R) /\ Len(c) = k /\ \A i \in 1 .. k : c[i] = b[i]
  <2>1. /\ SubSeq(b, 1, k) \in Seq(R)
        /\ Len(SubSeq(b, 1, k)) = IF 1 <= k THEN k - 1 + 1 ELSE 0
        /\ \A i \in 1 .. k - 1 + 1 : SubSeq(b, 1, k)[i] = b[1 + i - 1]
    BY <1>10, SubSeqProperties, 1 \in Int, k \in Int
  <2> QED BY <1>11, <2>1
<1>13. \A i \in 1 .. k : a[i] = c[i]
  <2>1. ASSUME NEW i \in 1 .. k
        PROVE  a[i] = b[i]
    <3>1. PICK j : j = (k - i) + 1
      OBVIOUS
    <3>2. j \in 1 .. k /\ n + j = (Total - i) + 1 /\ i \in 1 .. Total
      BY <1>2, <1>4, <3>1
    <3>3. w[j] = TestCases[n + j]
      BY <1>3, <1>4, <3>2
    <3> QED BY <1>7, <1>8, <3>1, <3>2, <3>3
  <2> QED BY <2>1, <1>12
<1>14. a = c
  BY <1>7, <1>12, <1>13, SeqEqual
<1>15. IsPrefix(a, b)
  BY <1>4, <1>7, <1>8, <1>9, <1>11, <1>14 DEF IsPrefix
<1> QED BY <1>5, <1>6, <1>15 DEF IsSuffix

\* No case runs twice at a time.
LEMMA OnceEach ==
  ASSUME TypeInv, QueueInv
  PROVE  Cardinality(active) = Cardinality({c.case : c \in active})
<1> DEFINE T == {c.case : c \in active}
           f == [c \in active |-> c.case]
<1>1. IsFiniteSet(active) /\ \A c, d \in active : c.case = d.case => c = d
  BY DEF TypeInv, RunTypes, QueueInv, QueuePlace
<1>2. f \in [active -> T] /\ \A c \in active : f[c] = c.case
  OBVIOUS
<1>3. \A t \in T : \E c \in active : f[c] = t
  OBVIOUS
<1> HIDE DEF f, T
<1>4. f \in Injection(active, T)
  BY <1>1, <1>2 DEF Injection, IsInjective
<1>5. f \in Surjection(active, T)
  BY <1>2, <1>3 DEF Surjection
<1>6. f \in Bijection(active, T)
  BY <1>4, <1>5 DEF Bijection
<1>7. ExistsBijection(active, T)
  BY <1>6 DEF ExistsBijection
<1> QED BY <1>1, <1>7, FS_Bijection DEF T

\* The type invariant of FullRun follows.
LEMMA AllTyped ==
  ASSUME TypeInv, QueueInv, PanelInv
  PROVE  TypeOK
<1>1. PICK n \in 0 .. Total : Taken(n)
  BY DEF QueueInv
<1>2. IsSuffix(queue.waiting, TestCases)
  <2>1. PICK w : w = queue.waiting
    OBVIOUS
  <2>2. w = SubSeq(TestCases, n + 1, Total)
    BY <1>1, <2>1 DEF Taken
  <2> QED BY <2>1, <2>2, WaitingIsSuffix
<1>3. Cardinality(active) = Cardinality({c.case : c \in active})
  BY OnceEach
<1>4. \A c \in active : c.case \in Range(TestCases) /\ c.at \in {"engine", "report"}
  BY DEF TypeInv, RunTypes, Calls
<1>5. queue.attached \in BOOLEAN /\ control \in [paused : BOOLEAN, limit : 1 .. MaxStreams]
  BY DEF TypeInv, RunTypes
<1>6. /\ stage \in Ends \cup {"idle", "warmup", "begin", "cases", "end", "unlink", "abort"}
      /\ outcome \in {"none", "ok", "cancelled", "failed"}
      /\ at \in 0 .. Len(modes) /\ due \in 0 .. sched
      /\ rag \in {UserSettings, FileSettings} \cup DOMAIN modes
  BY DEF TypeInv, RunTypes, ReportTypes, Stages
<1>7. {aborted, failed, broken, stop} \subseteq BOOLEAN
  BY DEF TypeInv, RunTypes, PanelInv, PanelTypes
<1>8. fresh \in 0 .. BatchSize /\ (stage # "dead" /\ ~broken => sched = done + Len(chain))
  BY CasesAreListed DEF TypeInv, ReportTypes
<1>9. PanelTypes /\ bench \in 0 .. Len(Plan)
  BY StepsAreListed DEF PanelInv, PanelTypes
<1> QED BY <1>2, <1>3, <1>4, <1>5, <1>6, <1>7, <1>8, <1>9 DEF TypeOK, PanelTypes

\* The text of a file, of the blocks that are chained and of the buffer.
Chained(ch) == UNION {Range(ch[i].text) : i \in DOMAIN ch}
Held(work, ch, b) == Range(work) \cup Chained(ch) \cup Range(b)

\* A block waits with text of its own, or is written and not yet published.
Piece(work, ch, b, i) ==
  /\ ch[i].text # <<>> /\ IsInjective(ch[i].text) /\ ch[i].tail = TailOf(ch[i].text)
  /\ Range(ch[i].text) \cap Range(b) = {}
  /\ ch[i].step = "write" => Range(ch[i].text) \cap Range(work) = {}
  /\ ch[i].step = "publish" => /\ i = 1 /\ work # <<>> /\ TailOf(work) = ch[i].tail
                               /\ Range(ch[i].text) \subseteq Range(work)
  /\ \A j \in DOMAIN ch : i # j => Range(ch[i].text) \cap Range(ch[j].text) = {}

Pieces(work, ch, b, h) ==
  /\ IsInjective(work) /\ IsInjective(b) /\ Range(work) \cap Range(b) = {}
  /\ \A i \in DOMAIN ch : Piece(work, ch, b, i)
  /\ b # <<>> => TailOf(b) = SnapshotTail(h)

\* A text that may be pushed after what is there.
Fits(work, ch, t, h) ==
  /\ IsInjective(t) /\ Range(t) \cap Range(work) = {}
  /\ \A i \in DOMAIN ch : Range(ch[i].text) \cap Range(t) = {}
  /\ t # <<>> => TailOf(t) = SnapshotTail(h)

\* What is chained is in one of the blocks.
LEMMA ChainedIs ==
  ASSUME NEW ch, NEW x
  PROVE  x \in Chained(ch) <=> \E i \in DOMAIN ch : x \in Range(ch[i].text)
<1> QED BY DEF Chained

\* A text with one more chunk, that was not in it.
LEMMA AppendWord ==
  ASSUME NEW s \in Seq(Words), NEW w \in Words, w \notin Range(s), IsInjective(s)
  PROVE  /\ Append(s, w) \in Seq(Words) /\ IsInjective(Append(s, w)) /\ Append(s, w) # <<>>
         /\ Range(Append(s, w)) = Range(s) \cup {w}
         /\ Append(s, w)[Len(Append(s, w))] = w
<1>1. PICK a : a = Append(s, w)
  OBVIOUS
<1>2. PICK l \in Nat : l = Len(s)
  BY LenProperties
<1>3. a \in Seq(Words) /\ a # <<>> /\ Len(a) = l + 1 /\ (\A i \in 1 .. l : a[i] = s[i]) /\ a[l + 1] = w
  BY <1>1, <1>2, AppendProperties
<1>4. DOMAIN a = 1 .. l + 1 /\ DOMAIN s = 1 .. l
  BY <1>2, <1>3, LenProperties
<1>5. Range(a) = {a[i] : i \in 1 .. l + 1} /\ Range(s) = {s[i] : i \in 1 .. l}
  BY <1>2, <1>3, RangeEquality
<1>6. Range(a) = Range(s) \cup {w}
  <2>1. 1 .. l + 1 = 1 .. l \cup {l + 1}
    BY <1>2
  <2> QED BY <1>3, <1>5, <2>1
<1>7. \A i \in 1 .. l : s[i] # w
  BY <1>5
<1>8. ASSUME NEW i \in 1 .. l + 1, NEW j \in 1 .. l + 1, a[i] = a[j]
      PROVE  i = j
  <2>1. i \in 1 .. l \/ i = l + 1
    BY <1>2
  <2>2. j \in 1 .. l \/ j = l + 1
    BY <1>2
  <2>3. \A p, q \in 1 .. l : s[p] = s[q] => p = q
    BY <1>4 DEF IsInjective
  <2> QED BY <1>3, <1>7, <1>8, <2>1, <2>2, <2>3
<1>9. IsInjective(a)
  BY <1>4, <1>8 DEF IsInjective
<1> QED BY <1>1, <1>3, <1>6, <1>9

\* What closes a text depends on its last chunk.
LEMMA TailOfWord ==
  ASSUME NEW s \in Seq(Words), NEW w \in Words
  PROVE  /\ w.k = "header" => TailOf(Append(s, w)) = "no mode"
         /\ w.k = "begin" => TailOf(Append(s, w)) = "no result"
         /\ w.k = "result" => TailOf(Append(s, w)) = "results"
         /\ w.k = "end" => TailOf(Append(s, w)) = "between modes"
<1>1. PICK a : a = Append(s, w)
  OBVIOUS
<1>2. a[Len(a)] = w
  <2>1. a[Len(s) + 1] = w /\ Len(a) = Len(s) + 1
    BY <1>1, AppendProperties
  <2> QED BY <2>1
<1>3. LastChunk(a) = w
  BY <1>2 DEF LastChunk
<1>4. /\ w.k = "header" => TailOf(a) = "no mode"
      /\ w.k = "begin" => TailOf(a) = "no result"
      /\ w.k = "result" => TailOf(a) = "results"
      /\ w.k = "end" => TailOf(a) = "between modes"
  BY <1>3 DEF TailOf
<1> QED BY <1>1, <1>4

\* A text written after another.
LEMMA JoinedText ==
  ASSUME NEW s \in Seq(Words), NEW t \in Seq(Words), t # <<>>,
         IsInjective(s), IsInjective(t), Range(s) \cap Range(t) = {}
  PROVE  /\ s \o t \in Seq(Words) /\ s \o t # <<>> /\ IsInjective(s \o t)
         /\ Range(s \o t) = Range(s) \cup Range(t) /\ TailOf(s \o t) = TailOf(t)
<1>1. PICK a : a = s \o t
  OBVIOUS
<1>2. PICK l \in Nat : l = Len(s)
  BY LenProperties
<1>3. PICK m \in Nat : m = Len(t) /\ m > 0
  BY LenProperties, EmptySeq
<1>4. a \in Seq(Words) /\ Len(a) = l + m /\ \A i \in 1 .. l + m : a[i] = IF i <= l THEN s[i] ELSE t[i - l]
  BY <1>1, <1>2, <1>3, ConcatProperties
<1>5. Range(a) = Range(s) \cup Range(t)
  BY <1>1, RangeConcatenation
<1>6. a # <<>>
  BY <1>3, <1>2, <1>4, EmptySeq
<1>7. DOMAIN a = 1 .. l + m /\ DOMAIN s = 1 .. l /\ DOMAIN t = 1 .. m
  BY <1>2, <1>3, <1>4, LenProperties
<1>8. \A i \in 1 .. l, j \in 1 .. m : s[i] # t[j]
  <2>1. Range(s) = {s[i] : i \in 1 .. l} /\ Range(t) = {t[i] : i \in 1 .. m}
    BY <1>2, <1>3, RangeEquality
  <2> QED BY <2>1
<1>9. ASSUME NEW i \in 1 .. l + m, NEW j \in 1 .. l + m, a[i] = a[j]
      PROVE  i = j
  <2>1. \A p, q \in 1 .. l : s[p] = s[q] => p = q
    BY <1>7 DEF IsInjective
  <2>2. \A p, q \in 1 .. m : t[p] = t[q] => p = q
    BY <1>7 DEF IsInjective
  <2>3. /\ i <= l => i \in 1 .. l /\ a[i] = s[i]
        /\ i > l => i - l \in 1 .. m /\ a[i] = t[i - l]
    BY <1>2, <1>3, <1>4
  <2>4. /\ j <= l => j \in 1 .. l /\ a[j] = s[j]
        /\ j > l => j - l \in 1 .. m /\ a[j] = t[j - l]
    BY <1>2, <1>3, <1>4
  <2>5. CASE i <= l /\ j <= l
    BY <1>9, <2>1, <2>3, <2>4, <2>5
  <2>6. CASE i > l /\ j > l
    <3>1. i - l = j - l
      BY <1>9, <2>2, <2>3, <2>4, <2>6
    <3> QED BY <3>1, <1>2
  <2>7. CASE i <= l /\ j > l
    BY <1>8, <1>9, <2>3, <2>4, <2>7
  <2>8. CASE i > l /\ j <= l
    BY <1>8, <1>9, <2>3, <2>4, <2>8
  <2>9. i \in Int /\ j \in Int
    OBVIOUS
  <2> QED BY <1>2, <2>5, <2>6, <2>7, <2>8, <2>9
<1>10. IsInjective(a)
  BY <1>7, <1>9 DEF IsInjective
<1>11. TailOf(a) = TailOf(t)
  <2>1. l + m \in 1 .. l + m /\ ~(l + m <= l) /\ (l + m) - l = m
    BY <1>2, <1>3
  <2>2. a[l + m] = t[m]
    BY <1>4, <2>1
  <2>3. LastChunk(a) = LastChunk(t)
    BY <1>3, <1>4, <2>2 DEF LastChunk
  <2> QED BY <2>3 DEF TailOf
<1> QED BY <1>1, <1>4, <1>5, <1>6, <1>10, <1>11

\* The empty text.
LEMMA NothingHeld == Range(<<>>) = {} /\ IsInjective(<<>>) /\ <<>> \in Seq(Words) /\ <<>> \in Seq(Blocks) /\ DOMAIN <<>> = {}
<1>1. <<>> \in Seq(Words) /\ Len(<<>>) = 0 /\ <<>> \in Seq(Blocks)
  BY EmptySeq
<1>2. DOMAIN <<>> = {}
  BY <1>1, LenProperties
<1> QED BY <1>1, <1>2 DEF Range, IsInjective

\* A block of the chain has text.
LEMMA BlockTypes ==
  ASSUME NEW ch \in Seq(Blocks)
  PROVE  /\ Len(ch) \in Nat /\ DOMAIN ch = 1 .. Len(ch)
         /\ \A i \in DOMAIN ch : ch[i] \in Blocks /\ ch[i].text \in Seq(Words) /\ ch[i].tail \in Tails
                                 /\ ch[i].step \in {"write", "publish"}
<1>1. Len(ch) \in Nat /\ DOMAIN ch = 1 .. Len(ch)
  BY LenProperties
<1>2. \A i \in DOMAIN ch : ch[i] \in Blocks
  BY <1>1, ElementOfSeq
<1> QED BY <1>1, <1>2 DEF Blocks

\* What is in the buffer waits there, under a new head of the report.
LEMMA TextWaits ==
  ASSUME NEW work, NEW ch, NEW b, NEW h, NEW t, NEW g, Pieces(work, ch, b, h), Fits(work, ch, t, g)
  PROVE  Pieces(work, ch, t, g)
<1>1. \A i \in DOMAIN ch : Piece(work, ch, t, i)
  BY DEF Pieces, Piece, Fits
<1> QED BY <1>1 DEF Pieces, Fits

\* A block as it is chained.
NewBlock(t, g) == [text |-> t, tail |-> SnapshotTail(g), step |-> "write"]

\* The chain c holds the text t as well.
Longer(work, ch, c, t) == Held(work, c, <<>>) = Held(work, ch, <<>>) \cup Range(t)

\* It is cut off as a block, the last of the chain.
LEMMA BlockJoins ==
  ASSUME NEW work, NEW ch \in Seq(Blocks), NEW b, NEW h, NEW t \in Seq(Words), NEW g, t # <<>>,
         Pieces(work, ch, b, h), Fits(work, ch, t, g),
         NEW c, c = Append(ch, NewBlock(t, g))
  PROVE  Pieces(work, c, <<>>, g) /\ Longer(work, ch, c, t)
<1>1. PICK blk \in Blocks : c = Append(ch, blk) /\ blk = NewBlock(t, g)
  <2>1. NewBlock(t, g) \in Blocks
    BY DEF NewBlock, Blocks, SnapshotTail, Tails
  <2> QED BY <2>1
<1>2. PICK l \in Nat : l = Len(ch)
  BY LenProperties
<1>3. c \in Seq(Blocks) /\ Len(c) = l + 1 /\ (\A i \in 1 .. l : c[i] = ch[i]) /\ c[l + 1] = blk
  BY <1>1, <1>2, AppendProperties
<1>4. DOMAIN ch = 1 .. l /\ DOMAIN c = 1 .. l + 1
  BY <1>2, <1>3, LenProperties
<1>5. blk.text = t /\ blk.tail = TailOf(t) /\ blk.step = "write"
  BY <1>1 DEF Fits, NewBlock
<1>6. Range(<<>>) = {} /\ IsInjective(<<>>)
  BY NothingHeld
<1>7. /\ IsInjective(t) /\ Range(t) \cap Range(work) = {}
      /\ \A i \in 1 .. l : Range(c[i].text) \cap Range(t) = {}
  BY <1>3, <1>4 DEF Fits
<1>8. ASSUME NEW i \in 1 .. l
      PROVE  Piece(work, c, <<>>, i)
  <2>1. Piece(work, ch, b, i) /\ c[i] = ch[i]
    BY <1>3, <1>4 DEF Pieces
  <2>2. ASSUME NEW j \in 1 .. l + 1, i # j
        PROVE  Range(c[i].text) \cap Range(c[j].text) = {}
    <3>1. CASE j = l + 1
      BY <3>1, <1>3, <1>5, <1>7
    <3>2. CASE j \in 1 .. l
      BY <3>2, <2>1, <2>2, <1>3, <1>4 DEF Piece
    <3> QED BY <3>1, <3>2, <1>2
  <2> QED BY <2>1, <2>2, <1>4, <1>6 DEF Piece
<1>9. Piece(work, c, <<>>, l + 1)
  <2>1. \A j \in 1 .. l + 1 : j # l + 1 => j \in 1 .. l
    BY <1>2
  <2>2. \A j \in 1 .. l + 1 : j # l + 1 => Range(c[l + 1].text) \cap Range(c[j].text) = {}
    BY <1>3, <1>5, <1>7, <2>1
  <2> QED BY <1>3, <1>4, <1>5, <1>6, <1>7, <2>2 DEF Piece
<1>10. \A i \in DOMAIN c : Piece(work, c, <<>>, i)
  <2>1. \A i \in 1 .. l + 1 : i \in 1 .. l \/ i = l + 1
    BY <1>2
  <2> QED BY <1>4, <1>8, <1>9, <2>1
<1>11. Pieces(work, c, <<>>, g)
  BY <1>6, <1>10 DEF Pieces
<1>12. Chained(c) = Chained(ch) \cup Range(t)
  <2>1. ASSUME NEW x
        PROVE  x \in Chained(c) <=> x \in Chained(ch) \/ x \in Range(t)
    <3>1. x \in Chained(c) <=> \E i \in 1 .. l + 1 : x \in Range(c[i].text)
      BY <1>4, ChainedIs
    <3>2. x \in Chained(ch) <=> \E i \in 1 .. l : x \in Range(ch[i].text)
      BY <1>4, ChainedIs
    <3>3. \A i \in 1 .. l : i \in 1 .. l + 1 /\ c[i] = ch[i]
      BY <1>3
    <3>4. \A i \in 1 .. l + 1 : i \in 1 .. l \/ i = l + 1
      BY <1>2
    <3>5. l + 1 \in 1 .. l + 1 /\ c[l + 1].text = t
      BY <1>3, <1>5
    <3> QED BY ONLY <3>1, <3>2, <3>3, <3>4, <3>5
  <2> QED BY <2>1
<1>13. Held(work, c, <<>>) = Held(work, ch, <<>>) \cup Range(t)
  BY <1>6, <1>12 DEF Held
<1> QED BY <1>11, <1>13 DEF Longer

\* The first block of the chain is written to the file.
LEMMA BlockWritten ==
  ASSUME NEW work \in Seq(Words), NEW ch \in Seq(Blocks), NEW b \in Seq(Words), NEW h,
         ch # <<>>, ch[1].step = "write", Pieces(work, ch, b, h),
         NEW c, c = [ch EXCEPT ![1].step = "publish"]
  PROVE  /\ Pieces(work \o ch[1].text, c, b, h)
         /\ Held(work \o ch[1].text, c, b) = Held(work, ch, b)
<1>1. PICK w : w = work \o ch[1].text
  OBVIOUS
<1>2. DOMAIN ch = 1 .. Len(ch) /\ Len(ch) \in Nat /\ 1 \in DOMAIN ch
  BY LenProperties, EmptySeq
<1>3. \A i \in DOMAIN ch : ch[i] \in Blocks
  BY BlockTypes
<1>4. /\ DOMAIN c = DOMAIN ch /\ c[1].text = ch[1].text /\ c[1].tail = ch[1].tail /\ c[1].step = "publish"
      /\ \A i \in DOMAIN ch : i # 1 => c[i] = ch[i]
  BY <1>2, <1>3 DEF Blocks
<1>5. \A i \in DOMAIN ch : c[i].text = ch[i].text
  BY <1>4
<1>6. PICK t : t = ch[1].text
  OBVIOUS
<1>7. t \in Seq(Words) /\ t # <<>> /\ IsInjective(t) /\ Range(t) \cap Range(work) = {} /\ ch[1].tail = TailOf(t)
      /\ Range(t) \cap Range(b) = {}
  BY <1>2, <1>6, BlockTypes DEF Pieces, Piece
<1>8. w # <<>> /\ IsInjective(w) /\ Range(w) = Range(work) \cup Range(t) /\ TailOf(w) = ch[1].tail
  <2>1. IsInjective(work)
    BY DEF Pieces
  <2> QED BY <1>1, <1>6, <1>7, <2>1, JoinedText
<1>9. ASSUME NEW i \in DOMAIN c
      PROVE  Piece(w, c, b, i)
  <2>1. Piece(work, ch, b, i)
    BY <1>4 DEF Pieces
  <2>2. /\ c[i].text # <<>> /\ IsInjective(c[i].text) /\ c[i].tail = TailOf(c[i].text)
        /\ Range(c[i].text) \cap Range(b) = {}
        /\ \A j \in DOMAIN c : i # j => Range(c[i].text) \cap Range(c[j].text) = {}
    BY <2>1, <1>4, <1>5 DEF Piece
  <2>3. CASE i = 1
    BY <2>2, <2>3, <1>4, <1>6, <1>8 DEF Piece
  <2>4. CASE i # 1
    <3>1. c[i] = ch[i] /\ Range(ch[i].text) \cap Range(t) = {}
      BY <2>1, <2>4, <1>2, <1>4, <1>6 DEF Piece
    <3>2. c[i].step # "publish"
      BY <2>1, <2>4, <3>1 DEF Piece
    <3>3. c[i].step = "write" => Range(c[i].text) \cap Range(w) = {}
      BY <2>1, <3>1, <1>8 DEF Piece
    <3> QED BY <2>2, <3>2, <3>3 DEF Piece
  <2> QED BY <2>3, <2>4
<1>10. Pieces(w, c, b, h)
  <2>1. IsInjective(b) /\ Range(work) \cap Range(b) = {} /\ (b # <<>> => TailOf(b) = SnapshotTail(h))
    BY DEF Pieces
  <2>2. Range(w) \cap Range(b) = {}
    BY <2>1, <1>7, <1>8
  <2> QED BY <1>8, <1>9, <2>1, <2>2 DEF Pieces
<1>11. Held(w, c, b) = Held(work, ch, b)
  <2>1. ASSUME NEW x
        PROVE  x \in Chained(c) <=> x \in Chained(ch)
    BY <1>4, <1>5, ChainedIs
  <2>2. \A x \in Range(t) : x \in Chained(ch)
    BY <1>2, <1>6, ChainedIs
  <2> QED BY <1>8, <2>1, <2>2 DEF Held
<1> QED BY <1>1, <1>10, <1>11

\* The snapshot is made of what is in the file.
LEMMA BlockPublished ==
  ASSUME NEW work \in Seq(Words), NEW ch \in Seq(Blocks), NEW b \in Seq(Words), NEW h,
         ch # <<>>, ch[1].step = "publish", Pieces(work, ch, b, h)
  PROVE  /\ Pieces(work, Tail(ch), b, h)
         /\ Held(work, Tail(ch), b) = Held(work, ch, b)
         /\ IsInjective(work) /\ work # <<>> /\ TailOf(work) = ch[1].tail
         /\ Tail(ch) # <<>> => Tail(ch)[1].step = "write"
<1>1. PICK c : c = Tail(ch)
  OBVIOUS
<1>2. PICK l \in Nat : l = Len(ch) /\ l > 0
  BY LenProperties, EmptySeq
<1>3. c \in Seq(Blocks) /\ Len(c) = l - 1 /\ \A i \in 1 .. Len(c) : c[i] = ch[i + 1]
  BY <1>1, <1>2, HeadTailProperties
<1>4. DOMAIN ch = 1 .. l /\ DOMAIN c = 1 .. l - 1 /\ 1 \in DOMAIN ch
  BY <1>2, <1>3, LenProperties
<1>5. \A i \in DOMAIN c : i + 1 \in DOMAIN ch /\ i + 1 # 1 /\ c[i] = ch[i + 1]
  BY <1>2, <1>3, <1>4
<1>6. \A i \in DOMAIN ch : Piece(work, ch, b, i)
  BY DEF Pieces
<1>7. /\ work # <<>> /\ TailOf(work) = ch[1].tail /\ Range(ch[1].text) \subseteq Range(work)
  BY <1>4, <1>6 DEF Piece
<1>8. ASSUME NEW i \in DOMAIN c
      PROVE  Piece(work, c, b, i) /\ c[i].step # "publish"
  <2>1. PICK k \in DOMAIN ch : k = i + 1
    BY <1>5
  <2>2. Piece(work, ch, b, k) /\ c[i] = ch[k] /\ k # 1
    BY <1>5, <1>6, <2>1
  <2>3. c[i].step # "publish"
    BY <2>2 DEF Piece
  <2>4. ASSUME NEW j \in DOMAIN c, i # j
        PROVE  Range(c[i].text) \cap Range(c[j].text) = {}
    <3>1. PICK m \in DOMAIN ch : m = j + 1
      BY <1>5
    <3>2. c[j] = ch[m] /\ m # k
      BY <1>4, <1>5, <2>1, <2>4, <3>1
    <3> QED BY <2>2, <3>2 DEF Piece
  <2>5. /\ c[i].text # <<>> /\ IsInjective(c[i].text) /\ c[i].tail = TailOf(c[i].text)
        /\ Range(c[i].text) \cap Range(b) = {}
        /\ c[i].step = "write" => Range(c[i].text) \cap Range(work) = {}
    BY <2>2 DEF Piece
  <2> QED BY <2>3, <2>4, <2>5 DEF Piece
<1>9. Pieces(work, c, b, h)
  BY <1>8 DEF Pieces
<1>10. Held(work, c, b) = Held(work, ch, b)
  <2>1. ASSUME NEW x \in Chained(c)
        PROVE  x \in Chained(ch)
    BY <1>5, ChainedIs
  <2>2. ASSUME NEW x \in Chained(ch)
        PROVE  x \in Chained(c) \/ x \in Range(work)
    <3>1. PICK k \in DOMAIN ch : x \in Range(ch[k].text)
      BY ChainedIs
    <3>2. CASE k = 1
      BY <3>1, <3>2, <1>7
    <3>3. CASE k # 1
      <4>1. PICK i \in DOMAIN c : k = i + 1
        <5>1. k - 1 \in DOMAIN c /\ (k - 1) + 1 = k
          BY <1>2, <1>4, <3>3
        <5> QED BY <5>1
      <4>2. c[i] = ch[k]
        BY <1>5, <4>1
      <4> QED BY <3>1, <4>2, ChainedIs
    <3> QED BY <3>2, <3>3
  <2> QED BY <2>1, <2>2 DEF Held
<1>11. c # <<>> => c[1].step = "write"
  <2> HAVE c # <<>>
  <2>1. 1 \in DOMAIN c
    BY <1>3, LenProperties, EmptySeq
  <2>2. c[1].step \in {"write", "publish"}
    BY <1>3, <2>1, BlockTypes
  <2> QED BY <1>8, <2>1, <2>2
<1> QED BY <1>1, <1>7, <1>9, <1>10, <1>11 DEF Pieces

\* The chain is lost, with all that was in it; or the file is gone.
LEMMA ChainLost ==
  ASSUME NEW work, NEW ch, NEW b, NEW h, Pieces(work, ch, b, h)
  PROVE  /\ Pieces(work, <<>>, b, h) /\ Held(work, <<>>, b) \subseteq Held(work, ch, b)
         /\ Pieces(<<>>, <<>>, b, h) /\ Held(<<>>, <<>>, b) \subseteq Held(work, ch, b)
         /\ Held(work, <<>>, b) = Range(work) \cup Range(b)
<1>1. Range(<<>>) = {} /\ IsInjective(<<>>) /\ DOMAIN <<>> = {}
  BY NothingHeld
<1>2. Pieces(work, <<>>, b, h)
  BY <1>1 DEF Pieces
<1>3. Pieces(<<>>, <<>>, b, h)
  BY <1>1 DEF Pieces
<1>4. Chained(<<>>) = {}
  <2>1. \A x : x \notin Chained(<<>>)
    BY <1>1, ChainedIs
  <2> QED BY <2>1
<1>5. Held(work, <<>>, b) = Range(work) \cup Range(b) /\ Held(<<>>, <<>>, b) = Range(b)
  BY <1>1, <1>4 DEF Held
<1>7. Held(work, ch, b) = Range(work) \cup Chained(ch) \cup Range(b)
  BY DEF Held
<1> QED BY <1>2, <1>3, <1>5, <1>7

-----------------------------------------------------------------------------
\* The text of the report in the run.
Present == Held(disk.working, chain, buf)
PiecesInv == Pieces(disk.working, chain, buf, head)

\* What Pushed leaves in the buffer and in the chain.
LEMMA PushedKeeps ==
  ASSUME ReportTypes, PiecesInv, broken \in BOOLEAN, broken => chain = <<>>,
         NEW t \in Seq(Words), NEW g \in Heads, NEW force \in BOOLEAN, NEW results,
         Fits(disk.working, chain, t, g),
         Range(buf) \subseteq Range(t),
         Pushed(t, g, force, results), head' = g, disk'.working = disk.working
  PROVE  /\ PiecesInv'
         /\ Present' \subseteq Present \cup Range(t)
         /\ ~broken => Present' = Present \cup Range(t)
<1>1. PICK w \in Seq(Words) : w = disk.working
  BY DEF ReportTypes, Files
<1>2. PICK c : c = chain
  OBVIOUS
<1>3. PICK b : b = buf
  OBVIOUS
<1>4. PICK h : h = head
  OBVIOUS
<1>5. Pieces(w, c, b, h) /\ Fits(w, c, t, g) /\ c \in Seq(Blocks) /\ Range(b) \subseteq Range(t) /\ head' = g
  BY <1>1, <1>2, <1>3, <1>4 DEF PiecesInv, ReportTypes
<1>6. PICK c2 : c2 = chain'
  OBVIOUS
<1>7. PICK b2 : b2 = buf'
  OBVIOUS
<1>8. PICK U : U = Chained(c)
  OBVIOUS
<1>9. Present = Range(w) \cup U \cup Range(b)
  BY ONLY <1>1, <1>2, <1>3, <1>8 DEF Present, Held
<1>10. Present' = Held(w, c2, b2) /\ (PiecesInv' <=> Pieces(w, c2, b2, g))
  BY <1>1, <1>5, <1>6, <1>7 DEF Present, PiecesInv
<1>11. CASE t # <<>> /\ (force \/ results >= BatchSize) /\ ~broken
  <2>3. c2 = Append(c, NewBlock(t, g)) /\ b2 = <<>>
    BY <1>2, <1>6, <1>7, <1>11 DEF Pushed, NewBlock
  <2>4. Pieces(w, c2, <<>>, g) /\ Held(w, c2, <<>>) = Held(w, c, <<>>) \cup Range(t)
    <3>1. t # <<>> /\ t \in Seq(Words) /\ c \in Seq(Blocks) /\ Pieces(w, c, b, h) /\ Fits(w, c, t, g)
      BY <1>5, <1>11
    <3>2. Pieces(w, c2, <<>>, g) /\ Longer(w, c, c2, t)
      BY ONLY <3>1, <2>3, BlockJoins
    <3> QED BY <3>2 DEF Longer
  <2>5. Held(w, c, <<>>) = Range(w) \cup U
    BY <1>8, NothingHeld DEF Held
  <2> QED BY <1>5, <1>9, <1>10, <1>11, <2>3, <2>4, <2>5
<1>12. CASE t # <<>> /\ (force \/ results >= BatchSize) /\ broken
  <2>1. c2 = c /\ b2 = <<>>
    BY <1>2, <1>6, <1>7, <1>12 DEF Pushed
  <2>2. Fits(w, c, <<>>, g)
    BY NothingHeld DEF Fits
  <2>3. Pieces(w, c, <<>>, g)
    BY <1>5, <2>2, TextWaits
  <2>4. Held(w, c, <<>>) = Range(w) \cup U
    BY <1>8, NothingHeld DEF Held
  <2> QED BY <1>9, <1>10, <1>12, <2>1, <2>3, <2>4
<1>13. CASE ~(t # <<>> /\ (force \/ results >= BatchSize))
  <2>1. c2 = c /\ b2 = t
    BY <1>2, <1>6, <1>7, <1>13 DEF Pushed
  <2>2. Pieces(w, c, t, g)
    BY <1>5, TextWaits
  <2>3. Held(w, c, t) = Range(w) \cup U \cup Range(t)
    BY ONLY <1>8 DEF Held
  <2> QED BY <1>5, <1>9, <1>10, <2>1, <2>2, <2>3
<1> QED BY <1>11, <1>12, <1>13

\* What the text may hold: a chunk for what happened, and no other.
Expected(w) ==
  \/ w.k = "header"
  \/ w.k = "begin" /\ w.m <= at
  \/ w.k = "result" /\ <<w.m, w.x>> \in answered
  \/ w.k = "end" /\ w.m <= at /\ (stage \in {"begin", "cases"} => w.m < at)

\* And what it must hold, as long as the disk does not fail.
ContentInv ==
  /\ \A w \in Present : Expected(w)
  /\ ~broken /\ stage \in InMode \cup {"abort"} =>
       \A r \in answered : Chunk("result", r[1], r[2]) \in Present
  /\ ~broken /\ stage \in InMode =>
       \A m \in 1 .. at : (stage \in {"begin", "cases"} => m < at) => Chunk("end", m, Total) \in Present

HeadInv ==
  /\ stage \in Before => head = NewHead /\ disk.working = NoFile
  /\ stage \in {"begin", "cases"} => head.mode = at /\ ~head.firstMode
  /\ stage = "end" => ~head.firstMode
  /\ stage \in {"end", "abort"} => due = sched /\ buf = <<>>
  /\ stage \in Ends \cup {"unlink"} => chain = <<>>

SnapshotInv ==
  /\ disk.partial # NoSnapshot =>
       disk.partial.tail = TailOf(disk.partial.text) /\ IsInjective(disk.partial.text) /\ sched > 0
  /\ ~broken /\ stage \in Before \cup InMode \cup {"abort"} /\ (chain # <<>> => chain[1].step = "write") =>
       disk.partial.text = disk.working
  /\ stage \in {"cancelled", "failed", "unlink"} /\ ~broken /\ disk.partial # NoSnapshot =>
       \A r \in answered : Chunk("result", r[1], r[2]) \in Range(disk.partial.text)

FinalInv ==
  disk.final # NoFile =>
    /\ stage \in Ends \cup {"unlink"}
    /\ IsInjective(disk.final)
    /\ \A m \in DOMAIN modes : /\ Results(disk.final, m) = Range(TestCases)
                               /\ Chunk("end", m, Total) \in Range(disk.final)

ReportInv == PiecesInv /\ ContentInv /\ HeadInv /\ SnapshotInv /\ FinalInv

-----------------------------------------------------------------------------
NothingYet ==
  /\ stage \in Before /\ head = NewHead /\ buf = <<>> /\ chain = <<>> /\ answered = {} /\ disk = NewFiles

\* Of a run that has not begun there is no report.
LEMMA ReportStarts == NothingYet => ReportInv
<1> SUFFICES ASSUME NothingYet PROVE ReportInv
  OBVIOUS
<1>1. /\ stage \in Before /\ head = NewHead /\ buf = <<>> /\ chain = <<>> /\ answered = {}
      /\ disk = [working |-> NoFile, partial |-> NoSnapshot, final |-> NoFile]
  BY DEF NothingYet, NewFiles
<1>2. disk.working = <<>> /\ disk.partial = NoSnapshot /\ disk.final = NoFile /\ disk.partial.text = <<>>
  BY <1>1 DEF NoFile, NoSnapshot
<1>3. Range(<<>>) = {} /\ IsInjective(<<>>) /\ DOMAIN <<>> = {}
  BY NothingHeld
<1>4. PiecesInv
  BY <1>1, <1>2, <1>3 DEF PiecesInv, Pieces
<1>5. Present = {}
  <2>1. \A x : x \notin Chained(<<>>)
    BY <1>3, ChainedIs
  <2> QED BY <1>1, <1>2, <1>3, <2>1 DEF Present, Held
<1>6. ContentInv
  BY <1>1, <1>5 DEF ContentInv, InMode, Before
<1>7. HeadInv /\ SnapshotInv /\ FinalInv
  BY <1>1, <1>2 DEF HeadInv, SnapshotInv, FinalInv, Ends, NoFile, Before
<1> QED BY <1>4, <1>6, <1>7 DEF ReportInv

\* While blocks are chained the disk has not failed, and the run goes on.
LEMMA ChainLives ==
  ASSUME TypeInv, ReportInv, chain # <<>>
  PROVE  ~broken /\ stage \notin Ends \cup {"unlink"} \cup Before /\ sched > 0 /\ chain \in Seq(Blocks)
<1>1. broken \in BOOLEAN /\ stage \notin Ends \cup {"unlink"} \cup Before
  BY DEF TypeInv, RunTypes, ReportTypes, ReportInv, HeadInv
<1>2. ~broken
  BY <1>1 DEF TypeInv, ReportTypes, Ends
<1>3. sched = done + Len(chain) /\ chain \in Seq(Blocks) /\ done \in Nat
  BY <1>1, <1>2 DEF TypeInv, ReportTypes, Ends
<1>4. Len(chain) \in Nat \ {0}
  BY <1>3, LenProperties, EmptySeq
<1> QED BY <1>1, <1>2, <1>3, <1>4

\* A block is written.
LEMMA WritesWell ==
  ASSUME TypeInv, ReportInv, WriteChain
  PROVE  ReportInv'
<1>1. /\ chain # <<>> /\ chain[1].step = "write"
      /\ disk' = [disk EXCEPT !.working = @ \o chain[1].text]
      /\ chain' = [chain EXCEPT ![1].step = "publish"]
      /\ UNCHANGED <<stage, modes, at, due, head, buf, sched, broken, answered>>
  <2>1. Head(chain) = chain[1]
    OBVIOUS
  <2> QED BY <2>1 DEF WriteChain
<1>2. ~broken /\ stage \notin Ends \cup {"unlink"} \cup Before /\ chain \in Seq(Blocks)
  BY <1>1, ChainLives
<1>3. disk \in Files /\ buf \in Seq(Words)
  BY DEF TypeInv, ReportTypes
<1>4. PICK w \in Seq(Words) : w = disk.working
  BY <1>3 DEF Files
<1>5. 1 \in DOMAIN chain /\ chain[1].text \in Seq(Words)
  BY <1>1, <1>2, LenProperties, EmptySeq, BlockTypes
<1>6. PICK v : v = w \o chain[1].text
  OBVIOUS
<1>7. v \in Seq(Words)
  BY <1>4, <1>5, <1>6, ConcatProperties
<1>8. disk'.working = v /\ disk'.partial = disk.partial /\ disk'.final = disk.final
  <2>1. disk' = [disk EXCEPT !.working = v]
    BY <1>1, <1>4, <1>6
  <2> QED BY <1>3, <1>7, <2>1, FileTypes
<1>9. PICK c : c = chain'
  OBVIOUS
<1>10. /\ Pieces(v, c, buf, head) /\ Held(v, c, buf) = Held(w, chain, buf)
  <2>1. Pieces(w, chain, buf, head)
    BY <1>4 DEF ReportInv, PiecesInv
  <2>2. /\ Pieces(w \o chain[1].text, c, buf, head)
        /\ Held(w \o chain[1].text, c, buf) = Held(w, chain, buf)
    BY <1>1, <1>2, <1>3, <1>9, <2>1, BlockWritten
  <2> QED BY <1>6, <2>2
<1>11. PiecesInv' /\ Present' = Present
  BY <1>1, <1>4, <1>8, <1>9, <1>10 DEF PiecesInv, Present
<1>12. ContentInv'
  BY <1>1, <1>11 DEF ReportInv, ContentInv, Expected
<1>13. HeadInv'
  BY <1>1, <1>2 DEF ReportInv, HeadInv
<1>14. chain' # <<>> /\ chain'[1].step = "publish"
  <2>1. DOMAIN chain' = DOMAIN chain /\ chain'[1].step = "publish"
    BY <1>1, <1>2, <1>5, BlockTypes DEF Blocks
  <2> QED BY <1>5, <2>1, NothingHeld
<1>15. SnapshotInv'
  BY <1>1, <1>8, <1>14 DEF ReportInv, SnapshotInv
<1>16. FinalInv'
  BY <1>1, <1>8 DEF ReportInv, FinalInv
<1> QED BY <1>11, <1>12, <1>13, <1>15, <1>16 DEF ReportInv

\* A block is published.
LEMMA PublishesWell ==
  ASSUME TypeInv, ReportInv, PublishChain
  PROVE  ReportInv'
<1>1. /\ chain # <<>> /\ chain[1].step = "publish"
      /\ disk' = [disk EXCEPT !.partial = [text |-> disk.working, tail |-> chain[1].tail]]
      /\ chain' = Tail(chain)
      /\ UNCHANGED <<stage, modes, at, due, head, buf, sched, broken, answered>>
  <2>1. Head(chain) = chain[1]
    OBVIOUS
  <2> QED BY <2>1 DEF PublishChain
<1>2. ~broken /\ stage \notin Ends \cup {"unlink"} \cup Before /\ chain \in Seq(Blocks) /\ sched > 0
  BY <1>1, ChainLives
<1>3. disk \in Files /\ buf \in Seq(Words)
  BY DEF TypeInv, ReportTypes
<1>4. PICK w \in Seq(Words) : w = disk.working
  BY <1>3 DEF Files
<1>5. 1 \in DOMAIN chain /\ chain[1].tail \in Tails
  BY <1>1, <1>2, LenProperties, EmptySeq, BlockTypes
<1>6. PICK p : p = [text |-> w, tail |-> chain[1].tail]
  OBVIOUS
<1>7. p \in [text : Seq(Words), tail : Tails \cup {"none"}] /\ p.text = w /\ p.tail = chain[1].tail
  BY <1>4, <1>5, <1>6
<1>8. disk'.working = w /\ disk'.partial = p /\ disk'.final = disk.final
  <2>1. disk' = [disk EXCEPT !.partial = p]
    BY <1>1, <1>4, <1>6
  <2> QED BY <1>3, <1>4, <1>7, <2>1, FileTypes
<1>9. PICK c : c = chain'
  OBVIOUS
<1>10. /\ Pieces(w, c, buf, head) /\ Held(w, c, buf) = Held(w, chain, buf)
       /\ IsInjective(w) /\ TailOf(w) = chain[1].tail
  <2>1. Pieces(w, chain, buf, head)
    BY <1>4 DEF ReportInv, PiecesInv
  <2>2. /\ Pieces(w, Tail(chain), buf, head) /\ Held(w, Tail(chain), buf) = Held(w, chain, buf)
        /\ IsInjective(w) /\ TailOf(w) = chain[1].tail
    BY <1>1, <1>2, <1>3, <2>1, BlockPublished
  <2> QED BY <1>1, <1>9, <2>2
<1>11. PiecesInv' /\ Present' = Present
  BY <1>1, <1>4, <1>8, <1>9, <1>10 DEF PiecesInv, Present
<1>12. ContentInv'
  BY <1>1, <1>11 DEF ReportInv, ContentInv, Expected
<1>13. HeadInv'
  BY <1>1, <1>2, <1>8 DEF ReportInv, HeadInv
<1>15. SnapshotInv'
  <2>1. stage' \notin {"cancelled", "failed"}
    BY <1>1, <1>2 DEF Ends
  <2> QED BY <1>1, <1>2, <1>7, <1>8, <1>10, <2>1 DEF SnapshotInv
<1>16. FinalInv'
  BY <1>1, <1>8 DEF ReportInv, FinalInv
<1> QED BY <1>11, <1>12, <1>13, <1>15, <1>16 DEF ReportInv

\* The disk fails: what was chained is lost, and the snapshot is what it was.
LEMMA DiskFailsWell ==
  ASSUME TypeInv, ReportInv, DiskFails
  PROVE  ReportInv'
<1>1. /\ chain # <<>> /\ broken' = TRUE /\ chain' = <<>>
      /\ UNCHANGED <<stage, modes, at, due, head, buf, sched, disk, answered>>
  BY DEF DiskFails
<1>2. ~broken /\ stage \notin Ends \cup {"unlink"} \cup Before
  BY <1>1, ChainLives
<1>3. /\ Pieces(disk.working, <<>>, buf, head)
      /\ Held(disk.working, <<>>, buf) \subseteq Held(disk.working, chain, buf)
  BY ChainLost DEF ReportInv, PiecesInv
<1>4. PiecesInv' /\ Present' \subseteq Present
  BY <1>1, <1>3 DEF PiecesInv, Present
<1>5. ContentInv'
  BY <1>1, <1>4 DEF ReportInv, ContentInv, Expected
<1>6. HeadInv'
  BY <1>1 DEF ReportInv, HeadInv
<1>7. SnapshotInv'
  BY <1>1, <1>2 DEF ReportInv, SnapshotInv
<1>8. FinalInv'
  BY <1>1 DEF ReportInv, FinalInv
<1> QED BY <1>4, <1>5, <1>6, <1>7, <1>8 DEF ReportInv

\* The process dies: what is on disk stays.
LEMMA CrashesWell ==
  ASSUME TypeInv, ReportInv, Crash
  PROVE  ReportInv'
<1>1. /\ stage' = "dead" /\ chain' = <<>>
      /\ UNCHANGED <<modes, at, due, head, buf, sched, broken, disk, answered>>
  BY DEF Crash
<1>3. /\ Pieces(disk.working, <<>>, buf, head)
      /\ Held(disk.working, <<>>, buf) \subseteq Held(disk.working, chain, buf)
  BY ChainLost DEF ReportInv, PiecesInv
<1>4. PiecesInv' /\ Present' \subseteq Present
  BY <1>1, <1>3 DEF PiecesInv, Present
<1>5. ContentInv'
  <2>1. ASSUME NEW w \in Present
        PROVE  Expected(w)'
    BY <1>1, <2>1 DEF ReportInv, ContentInv, Expected
  <2> QED BY <1>1, <1>4, <2>1 DEF ContentInv, InMode
<1>6. HeadInv' /\ SnapshotInv' /\ FinalInv'
  BY <1>1 DEF ReportInv, HeadInv, SnapshotInv, FinalInv, Ends, Before, InMode
<1> QED BY <1>4, <1>5, <1>6 DEF ReportInv

\* The report is left alone, while the cases of a mode go on or begin.
LEMMA ReportRests ==
  ASSUME TypeInv, ReportInv, UNCHANGED <<modes, at, due, head, buf, chain, sched, broken, disk, answered>>,
         stage' = stage \/ (stage = "begin" /\ stage' = "cases")
  PROVE  ReportInv'
<1>1. PiecesInv' /\ Present' = Present
  BY DEF ReportInv, PiecesInv, Present
<1>2. ContentInv'
  <2>1. ASSUME NEW w \in Present
        PROVE  Expected(w)'
    BY <2>1 DEF ReportInv, ContentInv, Expected
  <2>2. stage' \in InMode \cup {"abort"} => stage \in InMode \cup {"abort"}
    BY DEF InMode
  <2>3. stage' \in InMode => stage \in InMode /\ (stage \in {"begin", "cases"} <=> stage' \in {"begin", "cases"})
    BY DEF InMode
  <2> QED BY <1>1, <2>1, <2>2, <2>3 DEF ReportInv, ContentInv
<1>3. HeadInv'
  BY DEF ReportInv, HeadInv, Before, Ends
<1>4. SnapshotInv'
  BY DEF ReportInv, SnapshotInv, Before, InMode
<1>5. FinalInv'
  BY DEF ReportInv, FinalInv, Ends
<1> QED BY <1>1, <1>2, <1>3, <1>4, <1>5 DEF ReportInv

\* A run begins: nothing is there yet.
LEMMA TestsBegin ==
  ASSUME TypeInv, ReportInv, NEW over, NEW n, TestsRun(over, n)
  PROVE  ReportInv'
<1>1. NothingYet'
  BY DEF TestsRun, NothingYet, Before
<1> QED BY <1>1, ReportStarts, PTL

\* Which block is the first after something was pushed.
LEMMA FirstStays ==
  ASSUME chain \in Seq(Blocks), NEW t \in Seq(Words), NEW g, NEW force, NEW results, Pushed(t, g, force, results)
  PROVE  /\ (chain' # <<>> => chain'[1].step = "write") => (chain # <<>> => chain[1].step = "write")
         /\ sched' >= sched \/ sched \notin Nat
<1>1. CASE chain' = chain /\ sched' \in {sched, sched + 1}
  BY <1>1
<1>2. CASE chain' = Append(chain, NewBlock(t, g)) /\ sched' = sched + 1
  <2>1. NewBlock(t, g) \in Blocks
    BY DEF NewBlock, Blocks, SnapshotTail, Tails
  <2>2. /\ chain' # <<>> /\ \A i \in 1 .. Len(chain) : chain'[i] = chain[i]
    BY <1>2, <2>1, AppendProperties
  <2>3. chain # <<>> => 1 \in 1 .. Len(chain)
    BY LenProperties, EmptySeq
  <2> QED BY <1>2, <2>2, <2>3
<1> QED BY <1>1, <1>2 DEF Pushed, NewBlock

\* The run is over, and the report is put away.
LEMMA FinishesWell ==
  ASSUME TypeInv, QueueInv, ReportInv, NEW how \in {"cancelled", "failed"}, Finally(how),
         stage \in {"warmup", "begin", "cases", "end"},
         UNCHANGED <<modes, at, head, done, broken, disk, answered>>
  PROVE  ReportInv'
<1>1. disk.final = NoFile /\ sched \in Nat /\ done \in Nat /\ broken \in BOOLEAN
  BY DEF ReportInv, FinalInv, Ends, TypeInv, RunTypes, ReportTypes
<1>2. CASE sched = 0
  <2>1. stage' = how /\ UNCHANGED <<buf, chain, sched, due>>
    BY <1>2 DEF Finally
  <2>2. chain = <<>> /\ disk.partial = NoSnapshot
    <3>1. ~broken /\ sched = done + Len(chain) /\ chain \in Seq(Blocks)
      BY <1>1, <1>2 DEF TypeInv, ReportTypes
    <3>2. Len(chain) = 0
      BY <1>1, <1>2, <3>1, LenProperties
    <3> QED BY <1>2, <3>1, <3>2, EmptySeq DEF ReportInv, SnapshotInv
  <2>3. PiecesInv' /\ Present' = Present
    BY <2>1 DEF ReportInv, PiecesInv, Present
  <2>4. ContentInv'
    <3>1. ASSUME NEW w \in Present
          PROVE  Expected(w)'
      BY <2>1, <3>1 DEF ReportInv, ContentInv, Expected
    <3> QED BY <2>1, <2>3, <3>1 DEF ContentInv, InMode
  <2>5. HeadInv'
    BY <2>1, <2>2 DEF HeadInv, Before, Ends
  <2>6. SnapshotInv' /\ FinalInv'
    BY <1>1, <2>1, <2>2 DEF SnapshotInv, FinalInv, Before, InMode
  <2> QED BY <2>3, <2>4, <2>5, <2>6 DEF ReportInv
<1>3. CASE sched # 0
  <2>1. stage' = "abort" /\ Pushed(buf, head, TRUE, fresh) /\ due' = sched'
    BY <1>1, <1>3 DEF Finally
  <2>2. ReportTypes /\ PiecesInv /\ buf \in Seq(Words) /\ chain \in Seq(Blocks) /\ head \in Heads
    BY DEF TypeInv, ReportTypes, ReportInv
  <2>3. broken => chain = <<>>
    BY DEF TypeInv, ReportTypes
  <2>4. Fits(disk.working, chain, buf, head)
    BY <2>2 DEF PiecesInv, Pieces, Piece, Fits
  <2>5. /\ PiecesInv' /\ Present' \subseteq Present \cup Range(buf)
        /\ ~broken => Present' = Present \cup Range(buf)
    <3>1. Range(buf) \subseteq Range(buf) /\ head' = head /\ disk'.working = disk.working /\ TRUE \in BOOLEAN
      OBVIOUS
    <3> QED BY <1>1, <2>1, <2>2, <2>3, <2>4, <3>1, PushedKeeps
  <2>6. Range(buf) \subseteq Present
    BY DEF Present, Held
  <2>7. ContentInv'
    <3>1. ASSUME NEW w \in Present
          PROVE  Expected(w)'
      BY <2>1, <3>1 DEF ReportInv, ContentInv, Expected
    <3>2. stage = "warmup" => answered = {}
      <4>1. stage = "warmup" => at = 0
        BY DEF TypeInv, RunTypes, Before
      <4> QED BY <4>1 DEF QueueInv, AnsweredOf
    <3>3. stage # "warmup" => stage \in InMode
      BY DEF InMode
    <3>4. ~broken => \A r \in answered : Chunk("result", r[1], r[2]) \in Present
      BY <3>2, <3>3 DEF ReportInv, ContentInv
    <3>5. stage' \notin InMode
      BY <2>1 DEF InMode
    <3> QED BY <2>5, <2>6, <3>1, <3>4, <3>5 DEF ContentInv
  <2>8. buf' = <<>>
    BY <2>1 DEF Pushed
  <2>9. HeadInv'
    BY <2>1, <2>8 DEF HeadInv, Before, Ends
  <2>10. SnapshotInv'
    <3>1. stage \in Before \cup InMode \cup {"abort"}
      BY DEF Before, InMode
    <3>2. /\ (chain' # <<>> => chain'[1].step = "write") => (chain # <<>> => chain[1].step = "write")
          /\ sched' >= sched
      BY <1>1, <2>1, <2>2, FirstStays
    <3>3. sched > 0 => sched' > 0
      BY <1>1, <2>1, <3>2 DEF Pushed
    <3> QED BY <2>1, <3>1, <3>2, <3>3 DEF ReportInv, SnapshotInv
  <2>11. FinalInv'
    BY <1>1 DEF FinalInv
  <2> QED BY <2>5, <2>7, <2>9, <2>10, <2>11 DEF ReportInv
<1> QED BY <1>2, <1>3

\* The fields of a chunk.
LEMMA ChunkIs ==
  ASSUME NEW k, NEW m, NEW x
  PROVE  Chunk(k, m, x).k = k /\ Chunk(k, m, x).m = m /\ Chunk(k, m, x).x = x
<1> QED BY DEF Chunk

\* A chunk that is not there yet is pushed after what is in the buffer.
LEMMA WordPushed ==
  ASSUME TypeInv, ReportInv, NEW w \in Words, w \notin Present, NEW g \in Heads, NEW force \in BOOLEAN, NEW results,
         TailOf(Append(buf, w)) = SnapshotTail(g),
         Pushed(Append(buf, w), g, force, results), head' = g, disk' = disk
  PROVE  /\ PiecesInv'
         /\ Present' \subseteq Present \cup {w}
         /\ ~broken => Present' = Present \cup {w}
         /\ (chain' # <<>> => chain'[1].step = "write") => (chain # <<>> => chain[1].step = "write")
         /\ sched' >= sched
<1>1. /\ ReportTypes /\ PiecesInv /\ buf \in Seq(Words) /\ chain \in Seq(Blocks) /\ broken \in BOOLEAN
      /\ sched \in Nat /\ (broken => chain = <<>>)
  <2>1. broken => chain = <<>>
    BY DEF TypeInv, ReportTypes, ReportInv, HeadInv, Ends
  <2> QED BY <2>1 DEF TypeInv, RunTypes, ReportTypes, ReportInv
<1>2. PICK t : t = Append(buf, w)
  OBVIOUS
<1>3. /\ w \notin Range(buf) /\ w \notin Range(disk.working) /\ w \notin Chained(chain)
      /\ Range(buf) \subseteq Present
  BY DEF Present, Held
<1>4. IsInjective(buf)
  BY <1>1 DEF PiecesInv, Pieces
<1>5. t \in Seq(Words) /\ IsInjective(t) /\ t # <<>> /\ Range(t) = Range(buf) \cup {w}
  BY <1>1, <1>2, <1>3, <1>4, AppendWord
<1>6. Fits(disk.working, chain, t, g)
  <2>1. Range(buf) \cap Range(disk.working) = {} /\ \A i \in DOMAIN chain : Range(chain[i].text) \cap Range(buf) = {}
    BY <1>1 DEF PiecesInv, Pieces, Piece
  <2>2. \A i \in DOMAIN chain : w \notin Range(chain[i].text)
    BY <1>3, ChainedIs
  <2>3. TailOf(t) = SnapshotTail(g)
    BY <1>2
  <2> QED BY <1>3, <1>5, <2>1, <2>2, <2>3 DEF Fits
<1>7. Pushed(t, g, force, results) /\ Range(buf) \subseteq Range(t) /\ disk'.working = disk.working
  BY <1>2, <1>5
<1>8. /\ PiecesInv' /\ Present' \subseteq Present \cup Range(t)
      /\ ~broken => Present' = Present \cup Range(t)
  BY <1>1, <1>5, <1>6, <1>7, PushedKeeps
<1>9. /\ (chain' # <<>> => chain'[1].step = "write") => (chain # <<>> => chain[1].step = "write")
      /\ sched' >= sched
  BY <1>1, <1>5, <1>7, FirstStays
<1>10. Present \cup Range(t) = Present \cup {w}
  BY <1>3, <1>5
<1> QED BY <1>8, <1>9, <1>10

\* A result is reported, that was not there before.
LEMMA AnswersReport ==
  ASSUME TypeInv, QueueInv, ReportInv, NEW c \in active, Answered(c)
  PROVE  ReportInv'
<1>1. stage = "cases" /\ c.at = "engine" /\ at \in Nat \ {0} /\ c.case \in Range(TestCases)
  BY DEF QueueInv, QueuePlace, TypeInv, RunTypes, InMode, Answered, Calls
<1>2. /\ answered' = answered \cup {<<at, c.case>>}
      /\ head' = [head EXCEPT !.firstResult = FALSE]
      /\ Pushed(Append(buf, Chunk("result", at, c.case)), head', FALSE, fresh + 1)
      /\ UNCHANGED <<stage, modes, at, due, broken, disk>>
  BY DEF Answered
<1>3. PICK w : w = Chunk("result", at, c.case)
  OBVIOUS
<1>4. w \in Words /\ w.k = "result" /\ w.m = at /\ w.x = c.case
  BY <1>1, <1>3, WordTypes, ChunkIs DEF Kinds
<1>5. <<at, c.case>> \notin answered
  BY <1>1 DEF QueueInv, AnsweredOf
<1>6. w \notin Present
  BY <1>4, <1>5 DEF ReportInv, ContentInv, Expected
<1>7. head.mode = at /\ ~head.firstMode /\ head \in Heads
  BY <1>1 DEF ReportInv, HeadInv, TypeInv, ReportTypes
<1>8. PICK g : g = head'
  OBVIOUS
<1>9. g \in Heads /\ g.mode = at /\ g.firstMode = head.firstMode /\ g.firstResult = FALSE
  BY <1>2, <1>7, <1>8 DEF Heads
<1>10. SnapshotTail(g) = "results"
  BY <1>1, <1>9 DEF SnapshotTail
<1>11. buf \in Seq(Words) /\ TailOf(Append(buf, w)) = "results"
  BY <1>4, TailOfWord DEF TypeInv, ReportTypes
<1>12. Pushed(Append(buf, w), g, FALSE, fresh + 1)
  BY <1>2, <1>3, <1>8
<1>13. /\ PiecesInv' /\ Present' \subseteq Present \cup {w}
       /\ ~broken => Present' = Present \cup {w}
       /\ (chain' # <<>> => chain'[1].step = "write") => (chain # <<>> => chain[1].step = "write")
       /\ sched' >= sched
  <2>1. FALSE \in BOOLEAN /\ head' = g /\ disk' = disk /\ TailOf(Append(buf, w)) = SnapshotTail(g)
    BY <1>2, <1>8, <1>10, <1>11
  <2> QED BY <1>4, <1>6, <1>9, <1>12, <2>1, WordPushed
<1>14. ContentInv'
  <2>1. ASSUME NEW v \in Present
        PROVE  Expected(v)'
    BY <1>2, <2>1 DEF ReportInv, ContentInv, Expected
  <2>2. Expected(w)'
    BY <1>2, <1>4 DEF Expected
  <2>3. ~broken => \A r \in answered' : Chunk("result", r[1], r[2]) \in Present'
    <3>1. ~broken => \A r \in answered : Chunk("result", r[1], r[2]) \in Present
      BY <1>1 DEF ReportInv, ContentInv, InMode
    <3>2. \A r \in answered' : r \in answered \/ (r[1] = at /\ r[2] = c.case)
      BY <1>2
    <3> QED BY <1>3, <1>13, <3>1, <3>2
  <2>4. ~broken => \A m \in 1 .. at : m < at => Chunk("end", m, Total) \in Present
    BY <1>1 DEF ReportInv, ContentInv, InMode
  <2> QED BY <1>1, <1>2, <1>13, <2>1, <2>2, <2>3, <2>4 DEF ContentInv
<1>15. HeadInv'
  BY <1>1, <1>2, <1>7, <1>8, <1>9 DEF HeadInv, Before, Ends
<1>16. SnapshotInv'
  <2>1. sched > 0 => sched' > 0
    BY <1>2, <1>13 DEF TypeInv, ReportTypes, Pushed
  <2> QED BY <1>1, <1>2, <1>13, <2>1 DEF ReportInv, SnapshotInv, InMode
<1>17. FinalInv'
  BY <1>1, <1>2 DEF ReportInv, FinalInv, Ends
<1> QED BY <1>13, <1>14, <1>15, <1>16, <1>17 DEF ReportInv

\* All cases of a mode, counted.
LEMMA AllCounted ==
  ASSUME TypeInv, \A x \in Range(TestCases) : <<at, x>> \in answered
  PROVE  Cardinality({r \in answered : r[1] = at}) = Total
<1> DEFINE S == {r \in answered : r[1] = at}
           f == [i \in 1 .. Total |-> <<at, TestCases[i]>>]
<1>1. /\ Total \in Nat /\ (\A i \in 1 .. Total : TestCases[i] \in Range(TestCases))
      /\ Range(TestCases) = {TestCases[i] : i \in 1 .. Total}
  BY CasesAreListed, RangeEquality DEF Total
<1>2. answered \in SUBSET (Nat \X Range(TestCases))
  BY DEF TypeInv, RunTypes
<1>3. f \in [1 .. Total -> S]
  BY <1>1
<1>4. \A i, j \in 1 .. Total : f[i] = f[j] => i = j
  BY CasesDiffer
<1>5. ASSUME NEW r \in S
      PROVE  \E i \in 1 .. Total : f[i] = r
  <2>1. r[1] = at /\ r[2] \in Range(TestCases) /\ r = <<r[1], r[2]>>
    BY <1>2
  <2>2. PICK i \in 1 .. Total : r[2] = TestCases[i]
    BY <1>1, <2>1
  <2> QED BY <2>1, <2>2
<1> HIDE DEF S, f, Total
<1>6. f \in Bijection(1 .. Total, S)
  BY <1>3, <1>4, <1>5 DEF Bijection, Injection, Surjection, IsInjective
<1>7. ExistsBijection(1 .. Total, S)
  BY <1>6 DEF ExistsBijection
<1> QED BY <1>1, <1>7, FS_CountingElements DEF S

\* A mode ends, with all its cases counted.
LEMMA EndsMode ==
  ASSUME TypeInv, QueueInv, ReportInv, QueueInv', ModeEnds
  PROVE  ReportInv'
<1>1. /\ stage = "cases" /\ stage' = "end" /\ head' = [head EXCEPT !.mode = 0]
      /\ Pushed(Append(buf, Chunk("end", at, Cardinality({r \in answered : r[1] = at}))), head', TRUE, fresh)
      /\ due' = sched' /\ UNCHANGED <<modes, at, broken, disk, answered>>
  BY DEF ModeEnds
<1>2. at \in Nat \ {0}
  BY <1>1 DEF TypeInv, RunTypes, InMode
<1>3. \A x \in Range(TestCases) : <<at, x>> \in answered
  BY <1>1, <1>2 DEF QueueInv, AnsweredOf, InMode
<1>4. Cardinality({r \in answered : r[1] = at}) = Total /\ Total \in Nat
  BY <1>3, AllCounted, CasesAreListed DEF Total
<1>5. PICK w : w = Chunk("end", at, Total)
  OBVIOUS
<1>6. w \in Words /\ w.k = "end" /\ w.m = at
  BY <1>2, <1>4, <1>5, WordTypes, ChunkIs DEF Kinds
<1>7. w \notin Present
  <2> SUFFICES ASSUME w \in Present PROVE FALSE
    OBVIOUS
  <2>1. Expected(w)
    BY DEF ReportInv, ContentInv
  <2>2. w.m < at
    BY <1>1, <1>6, <2>1 DEF Expected
  <2> QED BY <1>2, <1>6, <2>2
<1>8. ~head.firstMode /\ head \in Heads
  BY <1>1 DEF ReportInv, HeadInv, TypeInv, ReportTypes
<1>9. PICK g : g = head'
  OBVIOUS
<1>10. g \in Heads /\ g.mode = 0 /\ ~g.firstMode
  BY <1>1, <1>8, <1>9 DEF Heads
<1>11. SnapshotTail(g) = "between modes"
  BY <1>10 DEF SnapshotTail
<1>12. TailOf(Append(buf, w)) = "between modes"
  BY <1>6, TailOfWord DEF TypeInv, ReportTypes
<1>13. Pushed(Append(buf, w), g, TRUE, fresh)
  BY <1>1, <1>4, <1>5, <1>9
<1>14. /\ PiecesInv' /\ Present' \subseteq Present \cup {w}
       /\ ~broken => Present' = Present \cup {w}
       /\ (chain' # <<>> => chain'[1].step = "write") => (chain # <<>> => chain[1].step = "write")
       /\ sched' >= sched
  <2>1. TRUE \in BOOLEAN /\ head' = g /\ disk' = disk /\ TailOf(Append(buf, w)) = SnapshotTail(g)
    BY <1>1, <1>9, <1>11, <1>12
  <2> QED BY <1>6, <1>7, <1>10, <1>13, <2>1, WordPushed
<1>15. ContentInv'
  <2>1. ASSUME NEW v \in Present
        PROVE  Expected(v)'
    BY <1>1, <1>2, <2>1 DEF ReportInv, ContentInv, Expected
  <2>2. Expected(w)'
    BY <1>1, <1>2, <1>6 DEF Expected
  <2>3. ~broken => \A r \in answered : Chunk("result", r[1], r[2]) \in Present
    BY <1>1 DEF ReportInv, ContentInv, InMode
  <2>4. ~broken => \A m \in 1 .. at : m < at => Chunk("end", m, Total) \in Present
    BY <1>1 DEF ReportInv, ContentInv, InMode
  <2>5. ~broken => \A m \in 1 .. at : Chunk("end", m, Total) \in Present'
    <3>1. \A m \in 1 .. at : m < at \/ m = at
      BY <1>2
    <3> QED BY <1>5, <1>14, <2>4, <3>1
  <2> QED BY <1>1, <1>14, <2>1, <2>2, <2>3, <2>5 DEF ContentInv
<1>16. HeadInv'
  <2>1. buf' = <<>>
    <3>1. Append(buf, w) # <<>>
      BY <1>6, AppendProperties DEF TypeInv, ReportTypes
    <3> QED BY <1>13, <3>1 DEF Pushed
  <2> QED BY <1>1, <1>9, <1>10, <2>1 DEF HeadInv, Before, Ends
<1>17. SnapshotInv'
  <2>1. sched > 0 => sched' > 0
    BY <1>13, <1>14 DEF TypeInv, ReportTypes, Pushed
  <2> QED BY <1>1, <1>14, <2>1 DEF ReportInv, SnapshotInv, InMode
<1>18. FinalInv'
  BY <1>1 DEF ReportInv, FinalInv, Ends
<1> QED BY <1>14, <1>15, <1>16, <1>17, <1>18 DEF ReportInv

\* The next mode begins.
LEMMA BeginsNext ==
  ASSUME TypeInv, QueueInv, ReportInv, NextMode
  PROVE  ReportInv'
<1>1. PICK i : i = at + 1
  OBVIOUS
<1>2. /\ stage = "end" /\ stage' = "begin" /\ at' = i
      /\ head' = [mode |-> i, firstMode |-> FALSE, firstResult |-> TRUE]
      /\ Pushed(Append(buf, Chunk("begin", i, 0)), head', TRUE, 0)
      /\ due' = sched' /\ UNCHANGED <<modes, broken, disk, answered>>
  BY <1>1 DEF NextMode, BeginMode
<1>3. at \in Nat \ {0} /\ i \in Nat /\ i > at /\ i # 0
  BY <1>1, <1>2 DEF TypeInv, RunTypes, InMode
<1>5. PICK w : w = Chunk("begin", i, 0)
  OBVIOUS
<1>6. w \in Words /\ w.k = "begin" /\ w.m = i
  BY <1>3, <1>5, WordTypes, ChunkIs DEF Kinds
<1>7. w \notin Present
  <2> SUFFICES ASSUME w \in Present PROVE FALSE
    OBVIOUS
  <2>1. Expected(w)
    BY DEF ReportInv, ContentInv
  <2>2. w.m <= at
    BY <1>6, <2>1 DEF Expected
  <2> QED BY <1>3, <1>6, <2>2
<1>9. PICK g : g = head'
  OBVIOUS
<1>10. g \in Heads /\ g.mode = i /\ ~g.firstMode /\ g.firstResult
  BY <1>2, <1>3, <1>9 DEF Heads
<1>11. SnapshotTail(g) = "no result"
  BY <1>3, <1>10 DEF SnapshotTail
<1>12. TailOf(Append(buf, w)) = "no result"
  BY <1>6, TailOfWord DEF TypeInv, ReportTypes
<1>13. Pushed(Append(buf, w), g, TRUE, 0)
  BY <1>2, <1>5, <1>9
<1>14. /\ PiecesInv' /\ Present' \subseteq Present \cup {w}
       /\ ~broken => Present' = Present \cup {w}
       /\ (chain' # <<>> => chain'[1].step = "write") => (chain # <<>> => chain[1].step = "write")
       /\ sched' >= sched
  <2>1. TRUE \in BOOLEAN /\ head' = g /\ disk' = disk /\ TailOf(Append(buf, w)) = SnapshotTail(g)
    BY <1>2, <1>9, <1>11, <1>12
  <2> QED BY <1>6, <1>7, <1>10, <1>13, <2>1, WordPushed
<1>15. ContentInv'
  <2>1. ASSUME NEW v \in Present
        PROVE  Expected(v)'
    <3>1. Expected(v) /\ v.m \in Nat
      <4>1. v \in Words
        <5>1. Present \subseteq Words
          <6>1. /\ disk.working \in Seq(Words) /\ buf \in Seq(Words) /\ chain \in Seq(Blocks)
            BY DEF TypeInv, ReportTypes, Files
          <6>2. Range(disk.working) \subseteq Words /\ Range(buf) \subseteq Words
            BY <6>1, RangeOfSeq
          <6>3. \A j \in DOMAIN chain : Range(chain[j].text) \subseteq Words
            BY <6>1, BlockTypes, RangeOfSeq
          <6>4. \A x \in Chained(chain) : x \in Words
            BY <6>3, ChainedIs
          <6> QED BY <6>2, <6>4 DEF Present, Held
        <5> QED BY <2>1, <5>1
      <4> QED BY <2>1, <4>1 DEF ReportInv, ContentInv, Words
    <3> QED BY <1>2, <1>3, <3>1 DEF Expected
  <2>2. Expected(w)'
    BY <1>2, <1>3, <1>6 DEF Expected
  <2>3. ~broken => \A r \in answered : Chunk("result", r[1], r[2]) \in Present
    BY <1>2 DEF ReportInv, ContentInv, InMode
  <2>4. ~broken => \A m \in 1 .. at : Chunk("end", m, Total) \in Present
    BY <1>2 DEF ReportInv, ContentInv, InMode
  <2>5. \A m \in 1 .. i : m < i => m \in 1 .. at
    BY <1>1, <1>3
  <2> QED BY <1>2, <1>14, <2>1, <2>2, <2>3, <2>4, <2>5 DEF ContentInv
<1>16. HeadInv'
  BY <1>2, <1>9, <1>10 DEF HeadInv, Before, Ends
<1>17. SnapshotInv'
  <2>1. sched > 0 => sched' > 0
    BY <1>13, <1>14 DEF TypeInv, ReportTypes, Pushed
  <2> QED BY <1>2, <1>14, <2>1 DEF ReportInv, SnapshotInv, InMode
<1>18. FinalInv'
  BY <1>2 DEF ReportInv, FinalInv, Ends
<1> QED BY <1>14, <1>15, <1>16, <1>17, <1>18 DEF ReportInv

\* The header and the first mode are chained.
LEMMA WarmsWell ==
  ASSUME TypeInv, QueueInv, ReportInv, Warmed
  PROVE  ReportInv'
<1>1. /\ stage = "warmup" /\ stage' = "begin" /\ at' = 1
      /\ head' = [mode |-> 1, firstMode |-> FALSE, firstResult |-> TRUE]
      /\ chain' = <<[text |-> <<HeaderChunk>>, tail |-> SnapshotTail(head), step |-> "write"],
                    [text |-> <<Chunk("begin", 1, 0)>>, tail |-> SnapshotTail(head'), step |-> "write"]>>
      /\ sched' = 2 /\ due' = 2
      /\ UNCHANGED <<modes, buf, broken, disk, answered>>
  BY DEF Warmed
<1>2. /\ at = 0 /\ chain = <<>> /\ buf = <<>> /\ sched = 0
      /\ head = [mode |-> 0, firstMode |-> TRUE, firstResult |-> TRUE] /\ disk.working = <<>>
  BY <1>1 DEF TypeInv, RunTypes, ReportTypes, ReportInv, HeadInv, Before, NoFile, NewHead
<1>3. answered = {}
  BY <1>2 DEF QueueInv, AnsweredOf
<1>4. PICK v \in Words : v = HeaderChunk /\ v.k = "header"
  BY WordTypes DEF HeaderChunk, Chunk
<1>5. PICK w \in Words : w = Chunk("begin", 1, 0) /\ w.k = "begin" /\ w.m = 1
  BY WordTypes, ChunkIs DEF Kinds
<1>6. PICK g : g = head'
  OBVIOUS
<1>7. g = [mode |-> 1, firstMode |-> FALSE, firstResult |-> TRUE] /\ SnapshotTail(g) = "no result" /\ SnapshotTail(head) = "no mode"
  <2>1. g.mode = 1 /\ g.firstResult /\ head.mode = 0 /\ head.firstMode
    BY <1>1, <1>2, <1>6
  <2>2. SnapshotTail(g) = "no result"
    BY ONLY <2>1 DEF SnapshotTail
  <2>3. SnapshotTail(head) = "no mode"
    BY ONLY <2>1 DEF SnapshotTail
  <2> QED BY <1>1, <1>6, <2>2, <2>3
<1>8. Range(<<>>) = {} /\ IsInjective(<<>>) /\ DOMAIN <<>> = {} /\ <<>> \in Seq(Words) /\ <<>> \in Seq(Blocks)
  BY NothingHeld
<1>9. PICK s : s = <<v>>
  OBVIOUS
<1>10. PICK t : t = <<w>>
  OBVIOUS
<1>11. /\ s \in Seq(Words) /\ s # <<>> /\ IsInjective(s) /\ Range(s) = {v} /\ TailOf(s) = "no mode"
  <2>1. PICK e \in Seq(Words) : e = <<>>
    BY <1>8
  <2>2. Range(e) = {} /\ IsInjective(e) /\ s = Append(e, v)
    BY <1>8, <1>9, <2>1
  <2>3. s \in Seq(Words) /\ s # <<>> /\ IsInjective(s) /\ Range(s) = Range(e) \cup {v}
    BY <2>2, AppendWord
  <2>4. TailOf(Append(e, v)) = "no mode"
    BY <1>4, TailOfWord
  <2> QED BY <2>2, <2>3, <2>4
<1>12. /\ t \in Seq(Words) /\ t # <<>> /\ IsInjective(t) /\ Range(t) = {w} /\ TailOf(t) = "no result"
  <2>1. PICK e \in Seq(Words) : e = <<>>
    BY <1>8
  <2>2. Range(e) = {} /\ IsInjective(e) /\ t = Append(e, w)
    BY <1>8, <1>10, <2>1
  <2>3. t \in Seq(Words) /\ t # <<>> /\ IsInjective(t) /\ Range(t) = Range(e) \cup {w}
    BY <2>2, AppendWord
  <2>4. TailOf(Append(e, w)) = "no result"
    BY <1>5, TailOfWord
  <2> QED BY <2>2, <2>3, <2>4
<1>13. PICK a : a = Append(<<>>, NewBlock(s, head))
  OBVIOUS
<1>14. PICK c : c = Append(a, NewBlock(t, g))
  OBVIOUS
<1>15. chain' = c
  BY <1>1, <1>4, <1>5, <1>6, <1>9, <1>10, <1>13, <1>14 DEF NewBlock
<1>16. NewBlock(s, head) \in Blocks /\ NewBlock(s, head).text = s /\ NewBlock(s, head).step = "write"
  BY <1>11 DEF NewBlock, Blocks, SnapshotTail, Tails
<1>17. a \in Seq(Blocks) /\ DOMAIN a = {1} /\ a[1] = NewBlock(s, head)
  <2>1. a = <<NewBlock(s, head)>>
    BY <1>13
  <2> QED BY <1>16, <2>1
<1>18. Pieces(<<>>, a, <<>>, head) /\ Longer(<<>>, <<>>, a, s)
  <2>1. Pieces(<<>>, <<>>, <<>>, head) /\ Fits(<<>>, <<>>, s, head)
    BY <1>7, <1>8, <1>11 DEF Pieces, Fits
  <2> QED BY <1>8, <1>11, <1>13, <2>1, BlockJoins
<1>19. Pieces(<<>>, c, <<>>, g) /\ Longer(<<>>, a, c, t)
  <2>1. Fits(<<>>, a, t, g)
    <3>1. Range(a[1].text) = {v}
      BY <1>11, <1>16, <1>17
    <3>2. v # w
      BY <1>4, <1>5
    <3> QED BY <1>7, <1>8, <1>12, <1>17, <3>1, <3>2 DEF Fits
  <2> QED BY <1>12, <1>14, <1>17, <1>18, <2>1, BlockJoins
<1>20. PiecesInv'
  BY <1>1, <1>2, <1>6, <1>15, <1>19 DEF PiecesInv
<1>21. Present' = {v, w}
  <2>1. Held(<<>>, <<>>, <<>>) = {}
    <3>1. \A x : x \notin Chained(<<>>)
      BY <1>8, ChainedIs
    <3> QED BY <1>8, <3>1 DEF Held
  <2>2. Held(<<>>, c, <<>>) = {v} \cup {w}
    BY <1>11, <1>12, <1>18, <1>19, <2>1 DEF Longer
  <2> QED BY <1>1, <1>2, <1>15, <2>2 DEF Present
<1>22. ContentInv'
  <2>1. Expected(v)' /\ Expected(w)'
    BY <1>1, <1>4, <1>5 DEF Expected
  <2> QED BY <1>1, <1>3, <1>21, <2>1 DEF ContentInv
<1>23. HeadInv'
  BY <1>1 DEF HeadInv, Before, Ends
<1>24. SnapshotInv'
  BY <1>1, <1>2 DEF ReportInv, SnapshotInv, Before
<1>25. FinalInv'
  BY <1>1 DEF ReportInv, FinalInv, Ends
<1> QED BY <1>20, <1>22, <1>23, <1>24, <1>25 DEF ReportInv

\* When the last block is through, all that was reported is in the file, and
\* the snapshot is a copy of it.
LEMMA AllThrough ==
  ASSUME TypeInv, ReportInv, stage \in {"end", "abort"}, Flushed(due)
  PROVE  /\ ~broken /\ chain = <<>> /\ buf = <<>> /\ Present = Range(disk.working)
         /\ disk.partial.text = disk.working /\ disk.final = NoFile
         /\ IsInjective(disk.working) /\ disk.working \in Seq(Words)
<1>1. due = sched /\ buf = <<>> /\ done >= sched
  BY DEF ReportInv, HeadInv, Flushed
<1>2. done \in Nat /\ sched \in Nat /\ stage # "dead" /\ broken \in BOOLEAN /\ chain \in Seq(Blocks)
  BY DEF TypeInv, RunTypes, ReportTypes
<1>3. ~broken
  BY <1>1, <1>2 DEF TypeInv, ReportTypes
<1>4. sched = done + Len(chain) /\ Len(chain) \in Nat
  BY <1>2, <1>3, LenProperties DEF TypeInv, ReportTypes
<1>5. Len(chain) = 0
  BY <1>1, <1>2, <1>4
<1>6. chain = <<>>
  BY <1>2, <1>5, EmptySeq
<1>7. Held(disk.working, <<>>, buf) = Range(disk.working) \cup Range(buf)
  BY ChainLost DEF ReportInv, PiecesInv
<1>8. Present = Range(disk.working)
  BY <1>1, <1>6, <1>7, NothingHeld DEF Present
<1>9. disk.partial.text = disk.working
  BY <1>3, <1>6 DEF ReportInv, SnapshotInv, InMode
<1>10. disk.final = NoFile
  BY DEF ReportInv, FinalInv, Ends
<1>11. IsInjective(disk.working) /\ disk.working \in Seq(Words)
  BY DEF ReportInv, PiecesInv, Pieces, TypeInv, ReportTypes, Files
<1> QED BY <1>1, <1>3, <1>6, <1>8, <1>9, <1>10, <1>11

\* The file is gone, and so is what it held.
LEMMA FileGone ==
  ASSUME ReportInv, chain = <<>>, buf = <<>>, UNCHANGED <<chain, buf, head>>, disk'.working = <<>>
  PROVE  PiecesInv' /\ Present' \subseteq Present
<1>1. /\ Pieces(<<>>, <<>>, buf, head) /\ Held(<<>>, <<>>, buf) \subseteq Held(disk.working, chain, buf)
  BY ChainLost DEF ReportInv, PiecesInv
<1> QED BY <1>1 DEF PiecesInv, Present

\* The report is closed, with every case in every mode.
LEMMA ClosesWell ==
  ASSUME TypeInv, QueueInv, ReportInv, Closes
  PROVE  ReportInv'
<1>1. PICK w : w = Chunk("footer", 0, 0)
  OBVIOUS
<1>2. /\ stage = "end" /\ stage' = "unlink" /\ Flushed(due) /\ at = Len(modes)
      /\ disk' = [disk EXCEPT !.final = Append(disk.working, w), !.working = NoFile]
      /\ UNCHANGED <<modes, at, due, head, buf, chain, sched, broken, answered>>
  BY <1>1 DEF Closes, queueVars
<1>3. w \in Words /\ w.k = "footer"
  BY <1>1, WordTypes, ChunkIs DEF Kinds
<1>4. /\ ~broken /\ chain = <<>> /\ buf = <<>> /\ Present = Range(disk.working)
      /\ IsInjective(disk.working) /\ disk.working \in Seq(Words)
  BY <1>2, AllThrough
<1>5. w \notin Range(disk.working)
  BY <1>3, <1>4 DEF ReportInv, ContentInv, Expected
<1>6. PICK f : f = Append(disk.working, w)
  OBVIOUS
<1>7. f \in Seq(Words) /\ IsInjective(f) /\ Range(f) = Range(disk.working) \cup {w}
  BY <1>3, <1>4, <1>5, <1>6, AppendWord
<1>8. disk'.final = f /\ disk'.working = NoFile /\ disk'.partial = disk.partial
  <2>1. disk \in Files /\ disk' = [disk EXCEPT !.final = f, !.working = NoFile]
    BY <1>2, <1>6 DEF TypeInv, ReportTypes
  <2> QED BY <1>7, <2>1, FileTypes
<1>9. PiecesInv' /\ Present' \subseteq Present
  BY <1>2, <1>4, <1>8, FileGone DEF NoFile
<1>10. ContentInv'
  <2>1. ASSUME NEW v \in Present
        PROVE  Expected(v)'
    BY <1>2, <2>1 DEF ReportInv, ContentInv, Expected
  <2> QED BY <1>2, <1>9, <2>1 DEF ContentInv, InMode
<1>11. HeadInv' /\ SnapshotInv'
  <2>1. \A r \in answered : Chunk("result", r[1], r[2]) \in Range(disk.partial.text)
    BY <1>2, <1>4, AllThrough DEF ReportInv, ContentInv, InMode
  <2> QED BY <1>2, <1>4, <1>8, <2>1 DEF ReportInv, HeadInv, SnapshotInv, Before, InMode
<1>12. ASSUME NEW m \in DOMAIN modes
       PROVE  Results(f, m) = Range(TestCases) /\ Chunk("end", m, Total) \in Range(f)
  <2>1. m \in 1 .. at /\ at \in Nat
    <3>1. modes \in Seq(Range(modes)) /\ at \in 0 .. Len(modes)
      BY DEF TypeInv, RunTypes
    <3> QED BY <1>2, <3>1, LenProperties
  <2>2. Chunk("end", m, Total) \in Range(f)
    BY <1>2, <1>4, <1>7, <2>1 DEF ReportInv, ContentInv, InMode
  <2>3. ASSUME NEW x \in Range(TestCases)
        PROVE  x \in Results(f, m)
    <3>1. <<m, x>> \in answered
      BY <1>2, <2>1 DEF QueueInv, AnsweredOf, InMode
    <3>2. PICK r \in answered : r = <<m, x>>
      BY <3>1
    <3>3. Chunk("result", m, x) \in Range(f)
      <4>1. Chunk("result", r[1], r[2]) \in Present
        BY <1>2, <1>4 DEF ReportInv, ContentInv, InMode
      <4>2. r[1] = m /\ r[2] = x
        BY <3>2
      <4> QED BY <1>4, <1>7, <4>1, <4>2
    <3>4. PICK d \in Range(f) : d.k = "result" /\ d.m = m /\ d.x = x
      BY <3>3, ChunkIs
    <3> QED BY <3>4 DEF Results
  <2>4. ASSUME NEW x \in Results(f, m)
        PROVE  x \in Range(TestCases)
    <3>1. PICK d \in Range(f) : d.k = "result" /\ d.m = m /\ d.x = x
      BY DEF Results
    <3>2. Expected(d)
      BY <1>3, <1>4, <1>7, <3>1 DEF ReportInv, ContentInv
    <3>3. <<m, x>> \in answered
      BY <3>1, <3>2 DEF Expected
    <3> QED BY <3>3 DEF TypeInv, RunTypes
  <2> QED BY <2>2, <2>3, <2>4
<1>13. FinalInv'
  BY <1>2, <1>7, <1>8, <1>12 DEF FinalInv
<1> QED BY <1>9, <1>10, <1>11, <1>13 DEF ReportInv

\* The report cannot be closed, is put away, or is done.
LEMMA EndsReport ==
  ASSUME TypeInv, QueueInv, ReportInv, CloseFails \/ PutAway \/ PutAwayFails \/ UnlinkFails \/ Unlinks
  PROVE  ReportInv'
<1>1. CASE CloseFails \/ (PutAwayFails /\ disk' = disk)
  <2>1. /\ stage \in {"end", "abort"} /\ stage' = "failed" /\ Flushed(due)
        /\ UNCHANGED <<modes, at, due, head, buf, chain, sched, broken, disk, answered>>
    BY <1>1 DEF CloseFails, PutAwayFails, reportVars
  <2>2. /\ ~broken /\ chain = <<>> /\ Present = Range(disk.working)
        /\ disk.partial.text = disk.working /\ disk.final = NoFile
    BY <2>1, AllThrough
  <2>3. PiecesInv' /\ Present' = Present
    BY <2>1 DEF ReportInv, PiecesInv, Present
  <2>4. ContentInv'
    <3>1. ASSUME NEW v \in Present
          PROVE  Expected(v)'
      BY <2>1, <3>1 DEF ReportInv, ContentInv, Expected
    <3> QED BY <2>1, <2>3, <3>1 DEF ContentInv, InMode
  <2>5. \A r \in answered : Chunk("result", r[1], r[2]) \in Present
    BY <2>1, <2>2 DEF ReportInv, ContentInv, InMode
  <2>6. HeadInv' /\ SnapshotInv'
    BY <2>1, <2>2, <2>5 DEF ReportInv, HeadInv, SnapshotInv, Before, InMode
  <2>7. FinalInv'
    BY <2>1, <2>2 DEF FinalInv
  <2> QED BY <2>3, <2>4, <2>6, <2>7 DEF ReportInv
<1>2. CASE (PutAway /\ Flushed(due)) \/ (PutAwayFails /\ disk' # disk)
  <2>1. /\ stage = "abort" /\ stage' \in {outcome, "failed"} /\ Flushed(due)
        /\ disk' = [disk EXCEPT !.working = NoFile]
        /\ UNCHANGED <<modes, at, due, head, buf, chain, sched, broken, answered>>
    BY <1>2 DEF PutAway, PutAwayFails
  <2>2. /\ ~broken /\ chain = <<>> /\ buf = <<>> /\ Present = Range(disk.working)
        /\ disk.partial.text = disk.working /\ disk.final = NoFile
    BY <1>2, <2>1, AllThrough
  <2>3. disk'.working = NoFile /\ disk'.partial = disk.partial /\ disk'.final = NoFile
    BY <2>1, <2>2, FileTypes DEF TypeInv, ReportTypes
  <2>4. stage' \in {"cancelled", "failed"}
    BY <2>1 DEF TypeInv, RunTypes
  <2>5. PiecesInv' /\ Present' \subseteq Present
    BY <2>1, <2>2, <2>3, FileGone DEF NoFile
  <2>6. ContentInv'
    <3>1. ASSUME NEW v \in Present
          PROVE  Expected(v)'
      BY <2>1, <2>4, <3>1 DEF ReportInv, ContentInv, Expected
    <3> QED BY <2>4, <2>5, <3>1 DEF ContentInv, InMode
  <2>7. \A r \in answered : Chunk("result", r[1], r[2]) \in Present
    BY <2>1, <2>2 DEF ReportInv, ContentInv
  <2>8. HeadInv'
    BY <2>1, <2>2, <2>4 DEF HeadInv, Before
  <2>9. SnapshotInv'
    BY <2>1, <2>2, <2>3, <2>4, <2>7 DEF ReportInv, SnapshotInv, Before, InMode
  <2>10. FinalInv'
    BY <2>3 DEF FinalInv
  <2> QED BY <2>5, <2>6, <2>8, <2>9, <2>10 DEF ReportInv
<1>3. CASE PutAway /\ ~Flushed(due)
  <2>1. /\ stage = "abort" /\ stage' = "failed" /\ broken
        /\ UNCHANGED <<modes, at, due, head, buf, chain, sched, broken, disk, answered>>
    BY <1>3 DEF PutAway
  <2>2. chain = <<>> /\ disk.final = NoFile
    BY <2>1 DEF TypeInv, ReportTypes, ReportInv, FinalInv, Ends
  <2>3. PiecesInv' /\ Present' = Present
    BY <2>1 DEF ReportInv, PiecesInv, Present
  <2>4. ContentInv'
    <3>1. ASSUME NEW v \in Present
          PROVE  Expected(v)'
      BY <2>1, <3>1 DEF ReportInv, ContentInv, Expected
    <3> QED BY <2>1, <2>3, <3>1 DEF ContentInv, InMode
  <2>5. HeadInv' /\ SnapshotInv' /\ FinalInv'
    BY <2>1, <2>2 DEF ReportInv, HeadInv, SnapshotInv, FinalInv, Before
  <2> QED BY <2>3, <2>4, <2>5 DEF ReportInv
<1>4. CASE Unlinks
  <2>1. /\ stage = "unlink" /\ stage' = "ok" /\ disk' = [disk EXCEPT !.partial = NoSnapshot]
        /\ UNCHANGED <<modes, at, due, head, buf, chain, sched, broken, answered>>
    BY <1>4 DEF Unlinks, Finally, queueVars
  <2>2. chain = <<>>
    BY <2>1 DEF ReportInv, HeadInv
  <2>3. disk'.working = disk.working /\ disk'.partial = NoSnapshot /\ disk'.final = disk.final
    BY <2>1, FileTypes DEF TypeInv, ReportTypes
  <2>4. PiecesInv' /\ Present' = Present
    BY <2>1, <2>3 DEF ReportInv, PiecesInv, Present
  <2>5. ContentInv'
    <3>1. ASSUME NEW v \in Present
          PROVE  Expected(v)'
      BY <2>1, <3>1 DEF ReportInv, ContentInv, Expected
    <3> QED BY <2>1, <2>4, <3>1 DEF ContentInv, InMode
  <2>6. HeadInv' /\ SnapshotInv'
    BY <2>1, <2>2, <2>3 DEF HeadInv, SnapshotInv, Before, InMode
  <2>7. FinalInv'
    BY <2>1, <2>3 DEF ReportInv, FinalInv, Ends
  <2> QED BY <2>4, <2>5, <2>6, <2>7 DEF ReportInv
<1>5. CASE UnlinkFails
  <2>1. /\ stage = "unlink" /\ stage' = "failed"
        /\ UNCHANGED <<modes, at, due, head, buf, chain, sched, broken, disk, answered>>
    BY <1>5 DEF UnlinkFails, reportVars
  <2>2. PiecesInv' /\ Present' = Present
    BY <2>1 DEF ReportInv, PiecesInv, Present
  <2>3. ContentInv'
    <3>1. ASSUME NEW v \in Present
          PROVE  Expected(v)'
      BY <2>1, <3>1 DEF ReportInv, ContentInv, Expected
    <3> QED BY <2>1, <2>2, <3>1 DEF ContentInv, InMode
  <2>4. HeadInv' /\ SnapshotInv' /\ FinalInv'
    BY <2>1 DEF ReportInv, HeadInv, SnapshotInv, FinalInv, Before, InMode, Ends
  <2> QED BY <2>2, <2>3, <2>4 DEF ReportInv
<1> QED BY <1>1, <1>2, <1>3, <1>4, <1>5

\* A step of runRagTests keeps the report whole.
LEMMA RunKeepsReport ==
  ASSUME TypeInv, QueueInv, ReportInv, QueueInv', RunStep
  PROVE  ReportInv'
<1>1. CASE Warmed \/ NextMode \/ ModeEnds \/ Closes \/ CloseFails \/ PutAway \/ PutAwayFails
               \/ UnlinkFails \/ Unlinks
  BY <1>1, WarmsWell, BeginsNext, EndsMode, ClosesWell, EndsReport
<1>2. CASE ModeBegins
  <2>1. /\ UNCHANGED <<modes, at, due, head, buf, chain, sched, broken, disk, answered>>
        /\ stage = "begin" /\ stage' = "cases"
    BY <1>2 DEF ModeBegins, reportVars
  <2> QED BY <2>1, ReportRests
<1>3. CASE WarmupFails \/ ReportFails
  <2>1. /\ Finally("failed") /\ stage \in {"warmup", "begin", "cases", "end"}
        /\ UNCHANGED <<modes, at, head, done, broken, disk, answered>>
    BY <1>3 DEF WarmupFails, ReportFails
  <2> QED BY <2>1, FinishesWell
<1>4. CASE QueueThrows
  <2>1. PICK how : how = IF aborted THEN "cancelled" ELSE "failed"
    OBVIOUS
  <2>2. /\ Finally(how) /\ stage \in {"warmup", "begin", "cases", "end"} /\ how \in {"cancelled", "failed"}
        /\ UNCHANGED <<modes, at, head, done, broken, disk, answered>>
    BY <1>4, <2>1 DEF QueueThrows
  <2> QED BY <2>2, FinishesWell
<1> QED BY <1>1, <1>2, <1>3, <1>4 DEF RunStep

\* Every step of the benchmark keeps the report whole.
LEMMA ReportKept ==
  ASSUME TypeInv, QueueInv, ReportInv, BenchStep
  PROVE  ReportInv'
<1>1. QueueInv'
  BY QueueKept
<1>2. CASE RunStep
  BY <1>1, <1>2, RunKeepsReport
<1>3. CASE CaseStep
  <2>1. PICK c \in active : Answered(c) \/ CaseThrows(c) \/ CaseReturns(c)
    BY <1>3 DEF CaseStep
  <2>2. CASE Answered(c)
    BY <2>2, AnswersReport
  <2>3. CASE CaseThrows(c) \/ CaseReturns(c)
    <3>1. UNCHANGED <<stage, modes, at, due, head, buf, chain, sched, broken, disk, answered>>
      BY <2>3 DEF CaseThrows, CaseReturns, reportVars
    <3> QED BY <3>1, ReportRests
  <2> QED BY <2>1, <2>2, <2>3
<1>4. CASE ReportStep
  BY <1>4, WritesWell, PublishesWell DEF ReportStep
<1>5. CASE DiskFails \/ Crash
  BY <1>5, DiskFailsWell, CrashesWell
<1>6. CASE Reload \/ TestsPause \/ (\E n \in 1 .. MaxStreams : TestsResume(n)) \/ JobCancel \/ UNCHANGED benchVars
  <2>1. UNCHANGED <<stage, modes, at, due, head, buf, chain, sched, broken, disk, answered>>
    BY <1>6 DEF Reload, TestsPause, TestsResume, JobCancel, benchVars, reportVars
  <2> QED BY <2>1, ReportRests
<1>7. CASE \E over \in Overrides, n \in 1 .. MaxStreams : TestsRun(over, n)
  BY <1>7, TestsBegin
<1> QED BY <1>2, <1>3, <1>4, <1>5, <1>6, <1>7 DEF BenchStep

\* Then the report can be read.
LEMMA ReportReads ==
  ASSUME ReportInv
  PROVE  ReportIsWhole
<1>1. ASSUME stage \in {"cancelled", "failed"}, ~broken, disk.partial # NoSnapshot, NEW r \in answered
      PROVE  r[2] \in Results(disk.partial.text, r[1])
  <2>1. Chunk("result", r[1], r[2]) \in Range(disk.partial.text)
    BY <1>1 DEF ReportInv, SnapshotInv
  <2>2. PICK d \in Range(disk.partial.text) : d.k = "result" /\ d.m = r[1] /\ d.x = r[2]
    BY <2>1, ChunkIs
  <2> QED BY <2>2 DEF Results
<1>2. disk.partial # NoSnapshot =>
        disk.partial.tail = TailOf(disk.partial.text) /\ IsInjective(disk.partial.text)
  BY DEF ReportInv, SnapshotInv
<1>3. disk.final # NoFile =>
       /\ IsInjective(disk.final)
       /\ \A m \in DOMAIN modes : /\ Results(disk.final, m) = Range(TestCases)
                                  /\ Chunk("end", m, Len(TestCases)) \in Range(disk.final)
  BY DEF ReportInv, FinalInv, Total
<1> QED BY <1>1, <1>2, <1>3 DEF ReportIsWhole

-----------------------------------------------------------------------------
IInv == TypeInv /\ QueueInv /\ ReportInv /\ PanelInv

\* The inductive invariant holds in every behaviour.
THEOREM Inductive == Spec => []IInv
<1>1. Init => IInv
  <2>1. InitBench => NothingYet
    BY DEF InitBench, NothingYet, Before
  <2> QED BY <2>1, BenchTypesInit, QueueStarts, ReportStarts, PanelStarts DEF Init, TypeInv, IInv
<1>2. IInv /\ [Next]_vars => IInv'
  BY BenchPart, QueueKept, ReportKept, PanelKept DEF IInv
<1> QED BY <1>1, <1>2, PTL DEF Spec

\* All variables of the panel, the run, its queue and its report have their types, no
\* case runs twice at a time, and the blocks are counted right.
THEOREM TypesAreKept == Spec => []TypeOK
<1>1. IInv => TypeOK
  BY AllTyped DEF IInv
<1> QED BY <1>1, Inductive, PTL

\* Whenever the snapshot of report-stream.js is read it closes the brackets it has open
\* and holds no chunk twice; a finished report has every case in every mode; and what a
\* cancelled or failed run had answered is in the snapshot, unless the disk failed.
THEOREM WholeIsKept == Spec => []ReportIsWhole
<1>1. IInv => ReportIsWhole
  BY ReportReads DEF IInv
<1> QED BY <1>1, Inductive, PTL

\* For any plan of pipeline steps and benchmarks, however many and in whatever order, the
\* list of the full run says what became of each job, and the settings of the user are back
\* when it is over.
THEOREM TruthIsKept == Spec => []EntriesTellTruth
<1>1. IInv => EntriesTellTruth
  BY ListIsTrue DEF IInv
<1> QED BY <1>1, Inductive, PTL

\* A case starts only in a queue that is not paused and has room; every mode begins with
\* settings of its own, and only a reload while it runs replaces them.
THEOREM ControlIsKept == Spec => CasesUnderControl
<1>1. IInv /\ [Next]_vars => ControlStep
  <2> SUFFICES ASSUME IInv, [Next]_vars PROVE ControlStep
    OBVIOUS
  <2>1. QueueInv' /\ FreshUnderControl /\ BenchStep
    BY BenchPart, QueueKept DEF IInv
  <2>2. active' # {} => stage' = "cases"
    BY <2>1 DEF QueueInv, QueuePlace
  <2>3. active' # {} =>
          \/ rag' = at'
          \/ stage = "cases" /\ rag' = FileSettings /\ (rag = FileSettings \/ Reload)
    BY <2>1, <2>2, SettingsHold DEF IInv
  <2> QED BY <2>1, <2>3 DEF FreshUnderControl, ControlStep
<1>2. ControlStep =>
        \A c \in active' :
           c.at = "engine" =>
             /\ c \notin active => ~control.paused' /\ Cardinality(active') <= control.limit'
             /\ \/ rag' = at'
                \/ stage = "cases" /\ rag' = FileSettings /\ (rag = FileSettings \/ Reload)
  BY DEF ControlStep
<1> QED BY <1>1, <1>2, Inductive, PTL DEF Spec, CasesUnderControl
===============================================================================
