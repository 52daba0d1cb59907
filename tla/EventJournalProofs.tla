------------------------- MODULE EventJournalProofs -------------------------
(***************************************************************************)
(* Proofs about EventJournal, for every set of events, every fault plan    *)
(* and every width of the sequence numbers: the journal is exactly what    *)
(* the tracker has seen, a gap is a hole, and a Replay is complete.        *)
(*                                                                         *)
(* Apply goes through a fault plan of any length.  What it computes is     *)
(* proved by induction on the steps of the plan, which rests on the least  *)
(* member of a set of natural numbers.                                     *)
(***************************************************************************)
EXTENDS EventJournal, TLAPS, FiniteSetTheorems, WellFoundedInduction

USE Zenon

-----------------------------------------------------------------------------
(* Induction up to a bound *)

Before == {p \in Nat \X Nat : p[1] < p[2]}

\* A set of natural numbers that is not empty has a least member.
LEMMA LeastNatural ==
    ASSUME NEW T, T \subseteq Nat, T # {}
    PROVE  \E x \in T : \A y \in T : x <= y
<1>1. IsWellFoundedOn(Before, Nat)
  BY NatLessThanWellFounded DEF OpToRel, Before
<1>2. PICK x \in T : \A y \in T : <<y, x>> \notin Before
  BY <1>1, WFMin
<1>3. ASSUME NEW y \in T PROVE x <= y
  <2>1. x \in Nat /\ y \in Nat
    OBVIOUS
  <2>2. <<y, x>> \in Nat \X Nat /\ <<y, x>> \notin Before
    BY <1>2, <2>1
  <2>3. ~(y < x)
    BY SMTT(30), <2>2 DEF Before
  <2> QED  BY SMTT(30), <2>1, <2>3
<1> QED  BY <1>3

\* What holds at 0, and at i + 1 when it holds at i, holds up to n.
LEMMA UpTo ==
    ASSUME NEW n \in Nat, NEW S, 0 \in S, \A i \in 0..n : i # n /\ i \in S => i + 1 \in S
    PROVE  \A i \in 0..n : i \in S
<1> DEFINE T == {i \in Nat : i <= n /\ i \notin S}
<1>1. ASSUME NEW m \in T, \A y \in T : m <= y PROVE FALSE
  <2>1. m \in Nat /\ m # 0 /\ m <= n /\ m \notin S
    OBVIOUS
  <2>2. m - 1 \in 0..n /\ m - 1 # n /\ m - 1 \in Nat /\ ~(m <= m - 1) /\ m - 1 <= n /\ (m - 1) + 1 = m
    BY SMTT(30), <2>1
  <2>3. m - 1 \in S
    BY <1>1, <2>2
  <2> QED  BY <2>1, <2>2, <2>3
<1>2. T = {}
  BY <1>1, LeastNatural
<1>3. ASSUME NEW i \in 0..n PROVE i \in S
  <2>1. i \in Nat /\ i <= n
    BY SMTT(30)
  <2> QED  BY <1>2, <2>1
<1> QED  BY <1>3

\* The step after m, when m is not the last.
LEMMA Successor ==
    ASSUME NEW n \in Nat, NEW m \in 0..n, m # n
    PROVE  m + 1 \in 1..n /\ m + 1 \in 0..n /\ m + 1 # 0 /\ (m + 1) - 1 = m
BY SMTT(30)

-----------------------------------------------------------------------------
(* Apply: the states between the steps of a fault plan *)

Start(frame, back) == [frames |-> <<frame>> \o back, held |-> <<>>, failed |-> FALSE]
Took(plan, cancelled, i) ==
    IF cancelled /\ plan[i] \in {"delay", "backpressure"} THEN "cancelled" ELSE plan[i]
After(f, frame, back, plan, chosen, cancelled, i) ==
    IF i = 0 THEN Start(frame, back)
    ELSE IF i \in chosen THEN ApplyStep(f[i - 1], Took(plan, cancelled, i)) ELSE f[i - 1]
Through(f, frame, back, plan, chosen, cancelled, n) ==
    f = [i \in 0..n |-> After(f, frame, back, plan, chosen, cancelled, i)]

\* The states exist, up to any step.
LEMMA ThroughExists ==
    ASSUME NEW frame, NEW back, NEW plan, NEW chosen, NEW cancelled, NEW n \in Nat
    PROVE  \E f : Through(f, frame, back, plan, chosen, cancelled, n)
<1> DEFINE S == {m \in Nat : \E f : Through(f, frame, back, plan, chosen, cancelled, m)}
<1>1. 0 \in S
  <2> DEFINE f == [i \in 0..0 |-> Start(frame, back)]
  <2>1. f = [i \in 0..0 |-> After(f, frame, back, plan, chosen, cancelled, i)]
    BY SMTT(30) DEF After
  <2> QED  BY SMTT(30), <2>1 DEF Through
<1>2. ASSUME NEW m \in 0..n, m \in S PROVE m + 1 \in S
  <2>1. PICK f : Through(f, frame, back, plan, chosen, cancelled, m)
    BY <1>2
  <2>2. m \in Nat /\ m + 1 \in Nat /\ m + 1 # 0
    BY SMTT(30)
  <2> DEFINE last == IF (m + 1) \in chosen THEN ApplyStep(f[m], Took(plan, cancelled, m + 1)) ELSE f[m]
             g == [i \in 0..(m + 1) |-> IF i = m + 1 THEN last ELSE f[i]]
  <2>3. ASSUME NEW i \in 0..(m + 1) PROVE g[i] = After(g, frame, back, plan, chosen, cancelled, i)
    <3>1. CASE i = m + 1
      <4>1. i # 0 /\ i - 1 = m /\ i - 1 \in 0..(m + 1) /\ i - 1 # m + 1
        BY SMTT(30), <2>2, <3>1
      <4>2. g[i] = last /\ g[i - 1] = f[m]
        BY <3>1, <4>1
      <4> QED  BY <3>1, <4>1, <4>2 DEF After
    <3>2. CASE i # m + 1
      <4>1. i \in 0..m /\ (i # 0 => i - 1 \in 0..(m + 1) /\ i - 1 # m + 1 /\ i - 1 \in 0..m)
        BY SMTT(30), <2>2, <3>2
      <4>2. g[i] = f[i] /\ (i # 0 => g[i - 1] = f[i - 1])
        BY <3>2, <4>1
      <4>3. f[i] = After(f, frame, back, plan, chosen, cancelled, i)
        BY <2>1, <4>1 DEF Through
      <4> QED  BY <4>2, <4>3 DEF After
    <3> QED  BY <3>1, <3>2
  <2> HIDE DEF last
  <2>4. g = [i \in 0..(m + 1) |-> After(g, frame, back, plan, chosen, cancelled, i)]
    BY <2>3
  <2> QED  BY <2>2, <2>4 DEF Through
<1>3. \A i \in 0..n : i \in S
  <2> HIDE DEF S
  <2> QED  BY <1>1, <1>2, UpTo
<1>4. n \in 0..n
  BY SMTT(30)
<1> QED  BY <1>3, <1>4

Runs(f, frame, back, plan, chosen, cancelled) ==
    /\ Through(f, frame, back, plan, chosen, cancelled, Len(plan))
    /\ Apply(frame, back, plan, chosen, cancelled) = f[Len(plan)]

\* What Apply returns is the last of the states.
LEMMA ApplyRuns ==
    ASSUME NEW frame, NEW back, NEW plan, NEW chosen, NEW cancelled, Len(plan) \in Nat
    PROVE  \E f : Runs(f, frame, back, plan, chosen, cancelled)
<1> DEFINE f == CHOOSE f : Through(f, frame, back, plan, chosen, cancelled, Len(plan))
<1>1. Through(f, frame, back, plan, chosen, cancelled, Len(plan))
  BY ThroughExists
<1>2. Apply(frame, back, plan, chosen, cancelled) = f[Len(plan)]
  BY DEF Apply, After, Start, Took, Through
<1> QED  BY <1>1, <1>2 DEF Runs

-----------------------------------------------------------------------------
(* Apply: types, and what is not lost *)

Forms == {"plain", "oversized", "redacted"}
Frames(P) == [payload : P, form : Forms]
States(P) == [frames : Seq(Frames(P)), held : Seq(Frames(P)), failed : BOOLEAN]
Taken == FaultActions \cup {"cancelled"}

\* A frame that still decodes to p is among the frames.
Has(frames, p) == \E i \in DOMAIN frames : frames[i].payload = p /\ frames[i].form # "redacted"

\* An oversize or redact fault gives every frame a form and keeps the payloads.
LEMMA FormTypes ==
    ASSUME NEW P, NEW frames \in Seq(Frames(P)), NEW form \in Forms
    PROVE  /\ WithForm(frames, form) \in Seq(Frames(P))
           /\ DOMAIN WithForm(frames, form) = DOMAIN frames
           /\ \A i \in DOMAIN frames : /\ WithForm(frames, form)[i].payload = frames[i].payload
                                       /\ WithForm(frames, form)[i].form = form
<1>1. DOMAIN frames = 1..Len(frames) /\ Len(frames) \in Nat /\ \A i \in DOMAIN frames : frames[i] \in Frames(P)
  BY SMTT(30)
<1>2. \A i \in DOMAIN frames :
          LET q == [frames[i] EXCEPT !.form = form]
          IN q \in Frames(P) /\ q.payload = frames[i].payload /\ q.form = form
  BY SMTT(30), <1>1 DEF Frames
<1>3. DOMAIN WithForm(frames, form) = 1..Len(frames)
      /\ \A i \in 1..Len(frames) : WithForm(frames, form)[i] = [frames[i] EXCEPT !.form = form]
  BY <1>1 DEF WithForm
<1>4. WithForm(frames, form) = [i \in 1..Len(frames) |-> [frames[i] EXCEPT !.form = form]]
  BY <1>1 DEF WithForm
<1>5. \A i \in 1..Len(frames) : [frames[i] EXCEPT !.form = form] \in Frames(P)
  BY <1>1, <1>2
<1>6. WithForm(frames, form) \in Seq(Frames(P))
  BY SMTT(30), <1>1, <1>4, <1>5
<1> QED  BY <1>1, <1>2, <1>3, <1>6

\* Where the copies of a frame come from and go.
LEMMA CopyIndex ==
    ASSUME NEW k \in Nat, k >= 2, NEW n \in Nat
    PROVE  /\ k * n \in Nat
           /\ \A i \in 1..(k * n) : 1 + ((i - 1) \div k) \in 1..n
           /\ \A j \in 1..n : \E i \in 1..(k * n) : 1 + ((i - 1) \div k) = j
<1>1. k * n \in Nat
  BY SMTT(30)
<1>2. ASSUME NEW i \in 1..(k * n) PROVE 1 + ((i - 1) \div k) \in 1..n
  <2>1. i - 1 \in Nat /\ i - 1 < k * n
    BY SMTT(30), <1>1
  <2>2. PICK q \in Nat : q = (i - 1) \div k
    BY SMTT(30), <2>1
  <2>3. k * q <= i - 1
    BY SMTT(30), <2>1, <2>2
  <2>4. k * q < k * n
    BY SMTT(30), <1>1, <2>1, <2>3
  <2>5. q < n
    BY SMTT(30), <2>4
  <2> QED  BY SMTT(30), <2>2, <2>5
<1>3. ASSUME NEW j \in 1..n PROVE \E i \in 1..(k * n) : 1 + ((i - 1) \div k) = j
  <2>1. PICK q \in Nat : q = j - 1 /\ q + 1 <= n
    BY SMTT(30)
  <2>2. PICK i \in Nat : i = k * q + 1
    BY SMTT(30)
  <2>3. (i - 1) \div k = q
    BY SMTT(30), <2>2
  <2>4. k * q + k <= k * n
    BY SMTT(30), <2>1
  <2>5. i \in 1..(k * n)
    BY SMTT(30), <1>1, <2>2, <2>4
  <2> QED  BY SMTT(30), <2>1, <2>3, <2>5
<1> QED  BY <1>1, <1>2, <1>3

\* A duplicate fault makes copies of every frame and of nothing else.
LEMMA DuplicatedTypes ==
    ASSUME NEW P, NEW frames \in Seq(Frames(P))
    PROVE  /\ Duplicated(frames) \in Seq(Frames(P))
           /\ \A j \in DOMAIN frames : \E i \in DOMAIN Duplicated(frames) : Duplicated(frames)[i] = frames[j]
<1>1. Len(frames) \in Nat /\ DOMAIN frames = 1..Len(frames) /\ \A i \in DOMAIN frames : frames[i] \in Frames(P)
  BY SMTT(30)
<1>2. Copies \in Nat /\ Copies >= 2
  BY SMTT(30), CopiesAssumption
<1>3. PICK n \in Nat : n = Copies * Len(frames)
  BY <1>1, <1>2, CopyIndex
<1>4. /\ \A i \in 1..n : 1 + ((i - 1) \div Copies) \in 1..Len(frames)
      /\ \A j \in 1..Len(frames) : \E i \in 1..n : 1 + ((i - 1) \div Copies) = j
  BY <1>1, <1>2, <1>3, CopyIndex
<1>5. /\ DOMAIN Duplicated(frames) = 1..n
      /\ \A i \in 1..n : Duplicated(frames)[i] = frames[1 + ((i - 1) \div Copies)]
  BY <1>3 DEF Duplicated
<1>6. Duplicated(frames) = [i \in 1..n |-> Duplicated(frames)[i]]
  BY <1>3 DEF Duplicated
<1>7. \A i \in 1..n : Duplicated(frames)[i] \in Frames(P)
  BY <1>1, <1>4, <1>5
<1>8. Duplicated(frames) \in Seq(Frames(P))
  <2> HIDE DEF Duplicated
  <2>1. [i \in 1..n |-> Duplicated(frames)[i]] \in Seq(Frames(P))
    BY SMTT(30), <1>7
  <2> QED  BY <1>6, <2>1
<1> QED  BY <1>1, <1>4, <1>5, <1>8

\* A state that differs in some of its fields.
LEMMA StateFields ==
    ASSUME NEW P, NEW st \in States(P)
    PROVE  /\ st.frames \in Seq(Frames(P)) /\ st.held \in Seq(Frames(P)) /\ st.failed \in BOOLEAN
           /\ <<>> \in Seq(Frames(P))
<1>1. <<>> \in Seq(Frames(P))
  BY SMTT(30)
<1> QED  BY <1>1 DEF States

\* A state with other frames,
LEMMA FramesState ==
    ASSUME NEW P, NEW st \in States(P), NEW f \in Seq(Frames(P)), NEW q, q = [st EXCEPT !.frames = f]
    PROVE  q \in States(P) /\ q.frames = f /\ q.held = st.held /\ q.failed = st.failed
BY DEF States

\* and one in which a step failed.
LEMMA FailedState ==
    ASSUME NEW P, NEW st \in States(P), NEW q, q = [st EXCEPT !.failed = TRUE, !.frames = <<>>]
    PROVE  q \in States(P) /\ q.failed
<1>1. <<>> \in Seq(Frames(P))
  BY SMTT(30)
<1> QED  BY <1>1 DEF States

\* Frames put after frames are frames.
LEMMA Concat ==
    ASSUME NEW F, NEW s \in Seq(F), NEW t \in Seq(F)
    PROVE  s \o t \in Seq(F)
BY SMTT(30)

\* A frame is still there when frames are put after or before it.
LEMMA HasConcat ==
    ASSUME NEW F, NEW s \in Seq(F), NEW t \in Seq(F), NEW p, Has(s, p) \/ Has(t, p)
    PROVE  s \o t \in Seq(F) /\ Has(s \o t, p)
<1>1. /\ s \o t \in Seq(F) /\ DOMAIN s = 1..Len(s) /\ DOMAIN t = 1..Len(t)
      /\ DOMAIN (s \o t) = 1..(Len(s) + Len(t)) /\ Len(s) \in Nat /\ Len(t) \in Nat
  BY SMTT(30)
<1>2. ASSUME NEW i \in DOMAIN s PROVE i \in DOMAIN (s \o t) /\ (s \o t)[i] = s[i]
  BY SMTT(30), <1>1
<1>3. ASSUME NEW i \in DOMAIN t
      PROVE  i + Len(s) \in DOMAIN (s \o t) /\ (s \o t)[i + Len(s)] = t[i]
  BY SMTT(30), <1>1
<1>4. CASE Has(s, p)
  BY <1>1, <1>2, <1>4 DEF Has
<1>5. CASE Has(t, p)
  BY <1>1, <1>3, <1>5 DEF Has
<1> QED  BY <1>4, <1>5

Carries(st, p) == Has(st.frames, p) \/ Has(st.held, p)

\* One step of the plan keeps the types, stops after a failure, and loses no frame
\* unless it drops or alters frames, or fails.
LEMMA StepTypes ==
    ASSUME NEW P, NEW st \in States(P), NEW a \in Taken
    PROVE  /\ ApplyStep(st, a) \in States(P)
           /\ st.failed => ApplyStep(st, a) = st
           /\ \A p : a \notin {"replay_gap", "redact"} /\ Carries(st, p) /\ ~ApplyStep(st, a).failed =>
                         Carries(ApplyStep(st, a), p)
<1>1. st.frames \in Seq(Frames(P)) /\ st.held \in Seq(Frames(P)) /\ st.failed \in BOOLEAN
      /\ <<>> \in Seq(Frames(P))
  BY StateFields
<1>2. CASE st.failed
  BY <1>2 DEF ApplyStep
<1>3. CASE ~st.failed /\ ApplyStep(st, a) = [st EXCEPT !.failed = TRUE, !.frames = <<>>]
  <2>1. ApplyStep(st, a) \in States(P) /\ ApplyStep(st, a).failed
    BY <1>3, FailedState
  <2> QED  BY <1>3, <2>1
<1>4. CASE ~st.failed /\ a = "duplicate" /\ ~(Len(st.frames) > MaxFaultOutputFrames \div Copies)
  <2>1. PICK f \in Seq(Frames(P)) :
            f = Duplicated(st.frames) /\ \A j \in DOMAIN st.frames : \E i \in DOMAIN f : f[i] = st.frames[j]
    BY SMTT(30), <1>1, DuplicatedTypes
  <2>2. ApplyStep(st, a) = [st EXCEPT !.frames = f]
    BY <1>4, <2>1 DEF ApplyStep
  <2>3. ApplyStep(st, a) \in States(P) /\ ApplyStep(st, a).frames = f /\ ApplyStep(st, a).held = st.held
    BY SMTT(30), <2>2, FramesState
  <2>4. ASSUME NEW p, Has(st.frames, p) PROVE Has(f, p)
    <3>1. PICK j \in DOMAIN st.frames : st.frames[j].payload = p /\ st.frames[j].form # "redacted"
      BY <2>4 DEF Has
    <3>2. PICK i \in DOMAIN f : f[i] = st.frames[j]
      BY <2>1
    <3> QED  BY <3>1, <3>2 DEF Has
  <2> QED  BY <1>4, <2>3, <2>4 DEF Carries
<1>5. CASE ~st.failed /\ a = "out_of_order"
  <2>1. PICK h \in Seq(Frames(P)) : h = st.held \o st.frames
    BY <1>1, Concat
  <2>2. ApplyStep(st, a) = [st EXCEPT !.held = h, !.frames = <<>>]
    BY <1>5, <2>1 DEF ApplyStep
  <2>3. ApplyStep(st, a) \in States(P) /\ ApplyStep(st, a).held = h
    <3>1. PICK q : q = ApplyStep(st, a)
      OBVIOUS
    <3>2. q = [st EXCEPT !.held = h, !.frames = <<>>]
      BY <2>2, <3>1
    <3>3. q \in States(P) /\ q.held = h
      BY <1>1, <3>2 DEF States
    <3> QED  BY <3>1, <3>3
  <2>4. \A p : Has(st.frames, p) \/ Has(st.held, p) => Has(h, p)
    BY <1>1, <2>1, HasConcat
  <2> QED  BY <1>5, <2>3, <2>4 DEF Carries
<1>6. CASE ~st.failed /\ a = "replay_gap"
  <2>1. ApplyStep(st, a) = [st EXCEPT !.frames = <<>>]
    BY <1>6 DEF ApplyStep
  <2> QED  BY <1>1, <1>6, <2>1, FramesState
<1>7. CASE ~st.failed /\ a = "oversize"
  <2>1. PICK f \in Seq(Frames(P)) :
            /\ f = WithForm(st.frames, "oversized") /\ DOMAIN f = DOMAIN st.frames
            /\ \A i \in DOMAIN st.frames : f[i].payload = st.frames[i].payload /\ f[i].form = "oversized"
    BY SMTT(30), <1>1, FormTypes DEF Forms
  <2>2. ApplyStep(st, a) = [st EXCEPT !.frames = f]
    BY <1>7, <2>1 DEF ApplyStep
  <2>3. ApplyStep(st, a) \in States(P) /\ ApplyStep(st, a).frames = f /\ ApplyStep(st, a).held = st.held
    BY SMTT(30), <2>2, FramesState
  <2>4. \A p : Has(st.frames, p) => Has(f, p)
    BY <2>1 DEF Has
  <2> QED  BY <1>7, <2>3, <2>4 DEF Carries
<1>8. CASE ~st.failed /\ a = "redact"
  <2>1. PICK f \in Seq(Frames(P)) : f = WithForm(st.frames, "redacted")
    BY <1>1, FormTypes DEF Forms
  <2>2. ApplyStep(st, a) = [st EXCEPT !.frames = f]
    BY <1>8, <2>1 DEF ApplyStep
  <2> QED  BY <1>8, <2>2, FramesState
<1>9. CASE ~st.failed /\ a \in {"delay", "backpressure"}
  <2>1. ApplyStep(st, a) = st
    BY <1>9 DEF ApplyStep
  <2> QED  BY <2>1
<1>10. ~st.failed /\ a \in {"disconnect", "crash", "cancelled"} =>
          ApplyStep(st, a) = [st EXCEPT !.failed = TRUE, !.frames = <<>>]
  BY DEF ApplyStep
<1>11. ~st.failed /\ a = "duplicate" /\ Len(st.frames) > MaxFaultOutputFrames \div Copies =>
          ApplyStep(st, a) = [st EXCEPT !.failed = TRUE, !.frames = <<>>]
  BY DEF ApplyStep
<1> QED  BY <1>2, <1>3, <1>4, <1>5, <1>6, <1>7, <1>8, <1>9, <1>10, <1>11 DEF Taken, FaultActions

\* Apply keeps the types; and when it does not fail and no step that fires drops or
\* alters frames, the frame it is given and those held back are delivered or held back.
THEOREM ApplyLosesNothing ==
    ASSUME NEW P, NEW frame \in Frames(P), NEW back \in Seq(Frames(P)), NEW plan \in Seq(FaultActions),
           NEW chosen \in SUBSET DOMAIN plan, NEW cancelled \in BOOLEAN
    PROVE  LET applied == Apply(frame, back, plan, chosen, cancelled) IN
           /\ applied \in States(P)
           /\ ~applied.failed /\ {plan[i] : i \in chosen} \cap {"replay_gap", "redact"} = {} =>
                  \A p : (frame.payload = p /\ frame.form # "redacted") \/ Has(back, p) => Carries(applied, p)
<1>0. Len(plan) \in Nat /\ DOMAIN plan = 1..Len(plan) /\ \A i \in 1..Len(plan) : plan[i] \in FaultActions
  BY SMTT(30)
<1>1. PICK f : Runs(f, frame, back, plan, chosen, cancelled)
  BY <1>0, ApplyRuns
<1>2. \A i \in 0..Len(plan) : f[i] = After(f, frame, back, plan, chosen, cancelled, i)
  BY <1>1 DEF Runs, Through
<1> DEFINE Safe == {plan[i] : i \in chosen} \cap {"replay_gap", "redact"} = {}
           Given(p) == (frame.payload = p /\ frame.form # "redacted") \/ Has(back, p)
           S == {i \in 0..Len(plan) : /\ f[i] \in States(P)
                                      /\ Safe /\ ~f[i].failed => \A p : Given(p) => Carries(f[i], p)}
<1>3. 0 \in S
  <2>1. 0 \in 0..Len(plan)
    BY SMTT(30), <1>0
  <2>2. f[0] = Start(frame, back)
    BY <1>2, <2>1 DEF After
  <2>3. <<frame>> \in Seq(Frames(P)) /\ <<>> \in Seq(Frames(P)) /\ <<frame>> \o back \in Seq(Frames(P))
        /\ 1 \in DOMAIN <<frame>> /\ <<frame>>[1] = frame
    BY SMTT(30)
  <2>4. Start(frame, back) \in States(P) /\ Start(frame, back).frames = <<frame>> \o back
    BY <2>3 DEF Start, States
  <2>5. ASSUME NEW p, Given(p) PROVE Has(<<frame>> \o back, p)
    <3>1. frame.payload = p /\ frame.form # "redacted" => Has(<<frame>>, p)
      BY <2>3 DEF Has
    <3> QED  BY <2>3, <2>5, <3>1, HasConcat
  <2> QED  BY <2>1, <2>2, <2>4, <2>5 DEF Carries
<1> HIDE DEF S
<1>4. ASSUME NEW m \in 0..Len(plan), m # Len(plan), m \in S PROVE m + 1 \in S
  <2>1. m + 1 \in 1..Len(plan) /\ m + 1 \in 0..Len(plan) /\ m + 1 # 0 /\ (m + 1) - 1 = m
    BY <1>0, <1>4, Successor
  <2>2. f[m] \in States(P) /\ (Safe /\ ~f[m].failed => \A p : Given(p) => Carries(f[m], p))
    BY <1>4 DEF S
  <2>3. CASE m + 1 \notin chosen
    <3>1. f[m + 1] = f[m]
      BY <1>2, <2>1, <2>3 DEF After
    <3> QED  BY <2>1, <2>2, <3>1 DEF S
  <2>4. CASE m + 1 \in chosen
    <3>1. PICK a : a = Took(plan, cancelled, m + 1)
      OBVIOUS
    <3>2. a \in Taken /\ (Safe => a \notin {"replay_gap", "redact"})
      <4>1. plan[m + 1] \in FaultActions
        BY <1>0, <2>1
      <4>2. Safe => plan[m + 1] \notin {"replay_gap", "redact"}
        BY <2>4
      <4> QED  BY <3>1, <4>1, <4>2 DEF Took, Taken
    <3>3. f[m + 1] = ApplyStep(f[m], a)
      BY <1>2, <2>1, <2>4, <3>1 DEF After
    <3>4. /\ ApplyStep(f[m], a) \in States(P) /\ (f[m].failed => ApplyStep(f[m], a) = f[m])
          /\ \A p : a \notin {"replay_gap", "redact"} /\ Carries(f[m], p) /\ ~ApplyStep(f[m], a).failed =>
                        Carries(ApplyStep(f[m], a), p)
      BY <2>2, <3>2, StepTypes
    <3>5. ~f[m + 1].failed => ~f[m].failed
      BY <3>3, <3>4
    <3>6. Safe /\ ~f[m + 1].failed => \A p : Given(p) => Carries(f[m + 1], p)
      BY <2>2, <3>2, <3>3, <3>4, <3>5
    <3> QED  BY <2>1, <3>3, <3>4, <3>6 DEF S
  <2> QED  BY <2>3, <2>4
<1>5. \A i \in 0..Len(plan) : i \in S
  BY <1>0, <1>3, <1>4, UpTo
<1>6. Len(plan) \in 0..Len(plan)
  BY SMTT(30), <1>0
<1> QED  BY <1>1, <1>5, <1>6 DEF S, Runs

-----------------------------------------------------------------------------
(* The inductive invariant *)

\* What an event decodes to: the event, or what a redaction left of it.
Decodable == Events \cup {[e EXCEPT !.digest = Altered] : e \in Events}
JournalRecords == [event : Decodable, sequence : Nat]
Replays == [state : {"idle", "running", "returned", "failed"}, after : Nat, snapshot : Seq(JournalRecords),
            next : Nat \ {0}, result : Seq(JournalRecords), faults : SUBSET FaultActions]

TrackerTypes ==
    /\ seen \subseteq Decodable /\ IsFiniteSet(seen) /\ highest \in [Streams -> 0..Largest]
    /\ records \in Seq(JournalRecords)
IngestTypes ==
    /\ ingest \in [busy : BOOLEAN, left : Seq(Frames(Events))]
    /\ ingests \in 0..MaxIngests /\ replays \in 0..MaxReplays
HeldTypes ==
    /\ script \in Seq(FaultActions) /\ used \subseteq DOMAIN script
    /\ held = [p \in Points |-> held[p]]
    /\ held["ingest"] \in Seq(Frames(Events)) /\ held["replay"] \in Seq(Frames(JournalRecords))
ReplayTypes == replay \in Replays

\* The journal numbers its records and holds what the tracker has seen.
Numbered ==
    /\ \A i \in DOMAIN records : records[i].sequence = i
    /\ Entries = seen /\ Cardinality(seen) = Len(records)
Unique == \A c, d \in seen : c.stream = d.stream /\ (c.id = d.id \/ c.sequence = d.sequence) => c = d

\* highest is the largest number of its stream that was seen, or 0 before the first.
Highest == \A s \in Streams :
    /\ highest[s] = 0 => \A c \in seen : c.stream # s
    /\ highest[s] # 0 => \E c \in seen : c.stream = s /\ c.sequence = highest[s]
    /\ \A c \in seen : c.stream = s => c.sequence <= highest[s]

\* What a Replay has passed is in its result or held back, unless a fault dropped or
\* altered it.
Returned(rec) == \E j \in DOMAIN replay.result : replay.result[j] = rec
Kept == replay.state = "running" /\ replay.faults \cap {"replay_gap", "redact"} = {} =>
    \A i \in DOMAIN replay.snapshot : i < replay.next /\ replay.snapshot[i].sequence > replay.after =>
        Returned(replay.snapshot[i]) \/ Has(held["replay"], replay.snapshot[i])

IInv == /\ TrackerTypes /\ IngestTypes /\ HeldTypes /\ ReplayTypes
        /\ Numbered /\ Unique /\ Highest /\ GapMeansHole /\ Kept /\ ReplayComplete

-----------------------------------------------------------------------------
(* Events *)

\* A redaction keeps the stream and the number, and a second one changes nothing.
LEMMA AlteredEvent ==
    ASSUME NEW e \in Events
    PROVE  LET a == [e EXCEPT !.digest = Altered]
           IN a.stream = e.stream /\ a.sequence = e.sequence /\ [a EXCEPT !.digest = Altered] = a
<1>1. e = [stream |-> e.stream, id |-> e.id, sequence |-> e.sequence, digest |-> e.digest]
  BY EventAssumption
<1>2. PICK s, i, n, d : e = [stream |-> s, id |-> i, sequence |-> n, digest |-> d]
  BY <1>1
<1>3. PICK a : a = [e EXCEPT !.digest = Altered]
  OBVIOUS
<1>4. a = [stream |-> s, id |-> i, sequence |-> n, digest |-> Altered]
  BY <1>2, <1>3
<1>5. PICK b : b = [a EXCEPT !.digest = Altered]
  OBVIOUS
<1>6. b = [stream |-> s, id |-> i, sequence |-> n, digest |-> Altered]
  BY <1>4, <1>5
<1>7. a.stream = e.stream /\ a.sequence = e.sequence
  BY <1>2, <1>4
<1> QED  BY <1>3, <1>4, <1>5, <1>6, <1>7

\* What can be decoded has a stream, a number, and a redacted form.
LEMMA EventFields ==
    ASSUME NEW e \in Decodable
    PROVE  e.stream \in Streams /\ e.sequence \in 1..Largest /\ [e EXCEPT !.digest = Altered] \in Decodable
<1>1. CASE e \in Events
  BY <1>1, EventAssumption DEF Streams, Decodable
<1>2. CASE e \notin Events
  <2>1. PICK d \in Events : e = [d EXCEPT !.digest = Altered]
    BY <1>2 DEF Decodable
  <2>2. e.stream = d.stream /\ e.sequence = d.sequence /\ [e EXCEPT !.digest = Altered] = e
    BY <2>1, AlteredEvent
  <2> QED  BY <2>2, EventAssumption DEF Streams
<1> QED  BY <1>1, <1>2

\* A frame decodes to an event or to what a redaction left of one.
LEMMA DecodedTypes ==
    ASSUME NEW frame \in Frames(Events)
    PROVE  Decoded(frame) \in Decodable
BY DEF Frames, Decoded, Decodable

\* What Observe answers.
LEMMA OutcomeMeans ==
    ASSUME NEW e
    PROVE  /\ Outcome(e) = "duplicate" => e \in seen
           /\ Outcome(e) \notin {"duplicate", "conflict"} =>
                  /\ e \notin seen
                  /\ \A c \in seen : c.stream = e.stream => c.id # e.id /\ c.sequence # e.sequence
                  /\ Outcome(e) = "gap" <=>
                         highest[e.stream] # 0 /\ e.sequence > (highest[e.stream] + 1) % 2^Width
<1>1. CASE e \in SameID(e)
  BY <1>1 DEF Outcome, SameID
<1>2. CASE e \notin SameID(e) /\ SameID(e) # {}
  BY <1>2 DEF Outcome
<1>3. CASE SameID(e) = {} /\ SameSequence(e) # {}
  BY <1>3 DEF Outcome
<1>4. CASE SameID(e) = {} /\ SameSequence(e) = {}
  <2>1. Outcome(e) = IF highest[e.stream] # 0 /\ e.sequence > (highest[e.stream] + 1) % 2^Width
                     THEN "gap" ELSE "accepted"
    BY <1>4 DEF Outcome
  <2>2. /\ e \notin seen
        /\ \A c \in seen : c.stream = e.stream => c.id # e.id /\ c.sequence # e.sequence
    BY <1>4 DEF SameID, SameSequence
  <2> QED  BY <2>1, <2>2
<1> QED  BY <1>1, <1>2, <1>3, <1>4

\* A gap is a hole below the event and above everything seen of its stream, or anything
\* after the largest number.
Below(e) == {c.sequence : c \in {d \in seen : d.stream = e.stream}}
LEMMA GapIsHole ==
    ASSUME TrackerTypes, Highest, NEW e \in Decodable
    PROVE  (highest[e.stream] # 0 /\ e.sequence > (highest[e.stream] + 1) % 2^Width) <=>
               \/ Largest \in Below(e)
               \/ (Below(e) # {} /\ \E n \in 1..(e.sequence - 1) : n \notin Below(e) /\ \A k \in Below(e) : k < n)
<1>1. PICK top \in Nat : top = 2^Width
  BY EventAssumption
<1>2. PICK s \in Streams : s = e.stream
  BY EventFields
<1>3. PICK h \in 0..Largest : h = highest[s]
  BY DEF TrackerTypes
<1>4. PICK q \in 1..Largest : q = e.sequence
  BY EventFields
<1>5. Largest = top - 1
  BY <1>1 DEF Largest
<1>6. \A k \in Below(e) : k \in 1..Largest
  BY EventFields DEF Below, TrackerTypes
<1>h. /\ h = 0 => \A c \in seen : c.stream # s
      /\ h # 0 => \E c \in seen : c.stream = s /\ c.sequence = h
      /\ \A c \in seen : c.stream = s => c.sequence <= h
  BY <1>3 DEF Highest
<1>7. h = 0 => Below(e) = {}
  BY <1>2, <1>h DEF Below
<1>8. h # 0 => h \in Below(e)
  BY <1>2, <1>h DEF Below
<1>9. \A k \in Below(e) : k <= h
  BY <1>2, <1>h DEF Below
<1> SUFFICES (h # 0 /\ q > (h + 1) % top) <=>
             \/ Largest \in Below(e)
             \/ (Below(e) # {} /\ \E n \in 1..(q - 1) : n \notin Below(e) /\ \A k \in Below(e) : k < n)
  BY <1>1, <1>2, <1>3, <1>4
<1> HIDE DEF Below
<1>10. CASE h = 0
  BY <1>7, <1>10
<1>11. CASE Largest \in Below(e)
  <2>1. h = Largest /\ h # 0 /\ h \in Nat
    BY SMTT(30), <1>3, <1>4, <1>5, <1>9, <1>11
  <2>2. (h + 1) % top = 0 /\ q > 0
    BY SMTT(30), <1>4, <1>5, <2>1
  <2> QED  BY <1>11, <2>1, <2>2
<1>12. CASE h # 0 /\ Largest \notin Below(e)
  <2>1. h \in Nat /\ h + 1 < top
    <3>1. h # Largest
      BY <1>8, <1>12
    <3> QED  BY SMTT(30), <1>3, <1>5, <3>1
  <2>2. (h + 1) % top = h + 1
    BY SMTT(30), <2>1
  <2>3. ASSUME q > h + 1
        PROVE  \E n \in 1..(q - 1) : n \notin Below(e) /\ \A k \in Below(e) : k < n
    <3>1. h + 1 \in 1..(q - 1)
      BY SMTT(30), <1>4, <1>5, <2>1, <2>3
    <3>2. \A k \in Below(e) : k \in Int /\ k <= h
      BY SMTT(30), <1>5, <1>6, <1>9
    <3>3. \A k \in Below(e) : k < h + 1
      BY SMTT(30), <2>1, <3>2
    <3>4. ~(h + 1 < h + 1)
      BY SMTT(30), <2>1
    <3>5. h + 1 \notin Below(e)
      BY <3>3, <3>4
    <3> QED  BY <3>1, <3>3, <3>5
  <2>4. ASSUME NEW n \in 1..(q - 1), \A k \in Below(e) : k < n PROVE q > h + 1
    <3>1. h < n
      BY <1>8, <1>12, <2>4
    <3> QED  BY SMTT(30), <1>4, <1>5, <2>1, <3>1
  <2>5. Below(e) # {}
    BY <1>8, <1>12
  <2> QED  BY <1>12, <2>2, <2>3, <2>4, <2>5
<1> QED  BY <1>10, <1>11, <1>12

-----------------------------------------------------------------------------
(* Ingest *)

\* Frames held back at one point leave those of the other alone.
LEMMA HeldAfter ==
    ASSUME HeldTypes, NEW p \in Points, NEW frames, held' = [held EXCEPT ![p] = frames]
    PROVE  /\ held' = [q \in Points |-> held'[q]] /\ held'[p] = frames
           /\ \A q \in Points : q # p => held'[q] = held[q]
BY DEF HeldTypes

\* What the steps of Ingest leave to Replay, and the other way round.
LEMMA ReplayUntouched ==
    ASSUME ReplayTypes, Kept, ReplayComplete, replay' = replay, held'["replay"] = held["replay"]
    PROVE  ReplayTypes' /\ Kept' /\ ReplayComplete'
BY DEF ReplayTypes, Kept, ReplayComplete, Returned

\* What a step that leaves tracker and journal alone keeps.
LEMMA TrackerUntouched ==
    ASSUME TrackerTypes, Numbered, Unique, Highest, GapMeansHole,
           UNCHANGED <<seen, highest, records, outcomes>>
    PROVE  TrackerTypes' /\ Numbered' /\ Unique' /\ Highest' /\ GapMeansHole'
<1>1. TrackerTypes'
  BY DEF TrackerTypes
<1>2. Numbered'
  BY DEF Numbered, Entries
<1>3. Unique' /\ Highest'
  BY DEF Unique, Highest
<1>4. GapMeansHole'
  BY DEF GapMeansHole
<1> QED  BY <1>1, <1>2, <1>3, <1>4

\* What a call of Apply for the payload e at point p does to the steps used and the
\* frames held back.
Applies(P, p, e, chosen, cancelled, applied) ==
    /\ p \in Points /\ held[p] \in Seq(Frames(P)) /\ e \in P
    /\ chosen \in SUBSET Unused /\ cancelled \in BOOLEAN
    /\ applied = Apply(Plain(e), held[p], script, chosen, cancelled)
    /\ used' = used \cup chosen /\ script' = script /\ held' = [held EXCEPT ![p] = applied.held]
Applied(P, p, e, chosen, applied) ==
    /\ applied.frames \in Seq(Frames(P)) /\ applied.held \in Seq(Frames(P))
    /\ applied.failed \in BOOLEAN
    /\ script' \in Seq(FaultActions) /\ used' \subseteq DOMAIN script'
    /\ {script[i] : i \in chosen} \subseteq FaultActions
    /\ held' = [q \in Points |-> held'[q]] /\ held'[p] = applied.held
    /\ \A q \in Points : q # p => held'[q] = held[q]
    /\ ~applied.failed /\ {script[i] : i \in chosen} \cap {"replay_gap", "redact"} = {} =>
           \A r : r = e \/ Has(held[p], r) => Has(applied.frames, r) \/ Has(applied.held, r)
LEMMA ApplyHolds ==
    ASSUME HeldTypes, NEW P, NEW p, NEW e, NEW chosen, NEW cancelled, NEW applied,
           Applies(P, p, e, chosen, cancelled, applied)
    PROVE  Applied(P, p, e, chosen, applied)
<1> USE DEF Applies
<1>1. Plain(e) \in Frames(P) /\ Plain(e).payload = e /\ Plain(e).form # "redacted"
  BY DEF Plain, Frames, Forms
<1>2. script \in Seq(FaultActions) /\ used \subseteq DOMAIN script /\ chosen \in SUBSET DOMAIN script
  BY DEF HeldTypes, Unused
<1>3. /\ applied \in States(P)
      /\ ~applied.failed /\ {script[i] : i \in chosen} \cap {"replay_gap", "redact"} = {} =>
             \A r : (Plain(e).payload = r /\ Plain(e).form # "redacted") \/ Has(held[p], r) => Carries(applied, r)
  BY <1>1, <1>2, ApplyLosesNothing
<1>4. /\ applied.frames \in Seq(Frames(P)) /\ applied.held \in Seq(Frames(P)) /\ applied.failed \in BOOLEAN
  BY <1>3, StateFields
<1>5. /\ held' = [q \in Points |-> held'[q]] /\ held'[p] = applied.held
      /\ \A q \in Points : q # p => held'[q] = held[q]
  BY HeldAfter
<1>6. \A i \in DOMAIN script : script[i] \in FaultActions
  BY SMTT(30), <1>2
<1>7. {script[i] : i \in chosen} \subseteq FaultActions
  BY <1>2, <1>6
<1>8. script' \in Seq(FaultActions) /\ used' \subseteq DOMAIN script'
  BY <1>2
<1>9. ~applied.failed /\ {script[i] : i \in chosen} \cap {"replay_gap", "redact"} = {} =>
          \A r : r = e \/ Has(held[p], r) => Has(applied.frames, r) \/ Has(applied.held, r)
  BY <1>1, <1>3 DEF Carries
<1> QED  BY <1>4, <1>5, <1>7, <1>8, <1>9 DEF Applied

\* An Ingest begins: the fault plan decides what is delivered.
LEMMA BeginIngestStep ==
    ASSUME IInv, NEW e \in Events, BeginIngest(e)
    PROVE  IInv'
<1>1. PICK chosen \in SUBSET Unused, cancelled \in BOOLEAN :
          LET applied == Apply(Plain(e), held["ingest"], script, chosen, cancelled) IN
            /\ used' = used \cup chosen
            /\ held' = [held EXCEPT !["ingest"] = applied.held]
            /\ ingest' = [busy |-> ~applied.failed, left |-> applied.frames]
  BY DEF BeginIngest
<1>2. PICK applied : applied = Apply(Plain(e), held["ingest"], script, chosen, cancelled)
  OBVIOUS
<1>3. /\ used' = used \cup chosen /\ held' = [held EXCEPT !["ingest"] = applied.held]
      /\ ingest' = [busy |-> ~applied.failed, left |-> applied.frames]
  BY <1>1, <1>2
<1>4. /\ ingests < MaxIngests /\ ingests' = ingests + 1
      /\ UNCHANGED <<script, seen, highest, records, outcomes, replay, replays>>
  BY DEF BeginIngest, replayVars
<1>5. HeldTypes /\ held["ingest"] \in Seq(Frames(Events)) /\ "ingest" \in Points /\ "replay" \in Points
  BY DEF IInv, HeldTypes, Points
<1>6. /\ applied.frames \in Seq(Frames(Events)) /\ applied.held \in Seq(Frames(Events))
      /\ applied.failed \in BOOLEAN
      /\ script' \in Seq(FaultActions) /\ used' \subseteq DOMAIN script'
      /\ held' = [q \in Points |-> held'[q]] /\ held'["ingest"] = applied.held
      /\ \A q \in Points : q # "ingest" => held'[q] = held[q]
  <2>1. script' = script
    BY <1>4
  <2>2. Applies(Events, "ingest", e, chosen, cancelled, applied)
    BY <1>2, <1>3, <1>5, <2>1 DEF Applies
  <2>3. Applied(Events, "ingest", e, chosen, applied)
    BY <1>5, <2>2, ApplyHolds
  <2> QED  BY <2>3 DEF Applied
<1>7. held'["replay"] = held["replay"]
  BY <1>5, <1>6
<1>8. HeldTypes'
  BY <1>5, <1>6, <1>7 DEF HeldTypes
<1>9. ingests' \in 0..MaxIngests
  <2>1. ingests \in 0..MaxIngests /\ MaxIngests \in Nat
    BY EventAssumption DEF IInv, IngestTypes
  <2> QED  BY SMTT(30), <1>4, <2>1
<1>10. ingest' \in [busy : BOOLEAN, left : Seq(Frames(Events))]
  BY <1>3, <1>6
<1>11. IngestTypes'
  BY <1>4, <1>9, <1>10 DEF IInv, IngestTypes
<1>12. ReplayTypes' /\ Kept' /\ ReplayComplete'
  BY <1>4, <1>7, ReplayUntouched DEF IInv
<1>13. TrackerTypes' /\ Numbered' /\ Unique' /\ Highest' /\ GapMeansHole'
  BY <1>4, TrackerUntouched DEF IInv
<1> QED  BY <1>8, <1>11, <1>12, <1>13 DEF IInv

\* A step of Ingest that observes nothing.
LEMMA IngestMoves ==
    ASSUME IInv, ingest' \in [busy : BOOLEAN, left : Seq(Frames(Events))],
           UNCHANGED <<script, seen, highest, records, outcomes, ingests, replay, replays, used, held>>
    PROVE  IInv'
<1>1. ReplayTypes' /\ Kept' /\ ReplayComplete'
  BY ReplayUntouched DEF IInv
<1>2. TrackerTypes' /\ Numbered' /\ Unique' /\ Highest' /\ GapMeansHole'
  BY TrackerUntouched DEF IInv
<1> QED  BY <1>1, <1>2 DEF IInv, IngestTypes, HeldTypes

\* An Ingest ends.
LEMMA EndIngestStep ==
    ASSUME IInv, EndIngest
    PROVE  IInv'
<1>1. UNCHANGED <<script, seen, highest, records, outcomes, ingests, replay, replays, used, held>>
      /\ ingest' = [ingest EXCEPT !.busy = FALSE]
  BY DEF EndIngest, replayVars
<1>2. ingest' \in [busy : BOOLEAN, left : Seq(Frames(Events))]
  BY <1>1 DEF IInv, IngestTypes
<1> QED  BY <1>1, <1>2, IngestMoves

\* The journal after a record was committed.
LEMMA Committed ==
    ASSUME TrackerTypes, Numbered, NEW e \in Decodable, e \notin seen,
           records' = Append(records, [event |-> e, sequence |-> Len(records) + 1]), seen' = seen \cup {e}
    PROVE  records' \in Seq(JournalRecords) /\ IsFiniteSet(seen') /\ Numbered'
<1>1. records \in Seq(JournalRecords) /\ Len(records) \in Nat /\ DOMAIN records = 1..Len(records)
  BY SMTT(30) DEF TrackerTypes
<1>2. PICK rec : rec = [event |-> e, sequence |-> Len(records) + 1]
  OBVIOUS
<1>3. Len(records) + 1 \in Nat
  BY SMTT(30), <1>1
<1>4. rec \in JournalRecords /\ rec.event = e /\ rec.sequence = Len(records) + 1
  BY <1>2, <1>3 DEF JournalRecords
<1>5. records' = Append(records, rec)
  BY <1>2
<1>6. /\ records' \in Seq(JournalRecords) /\ Len(records') = Len(records) + 1
      /\ DOMAIN records' = 1..(Len(records) + 1) /\ records'[Len(records) + 1] = rec
      /\ \A i \in 1..Len(records) : records'[i] = records[i]
  BY SMTT(30), <1>1, <1>4, <1>5
<1>7. DOMAIN records' = DOMAIN records \cup {Len(records) + 1}
  BY SMTT(30), <1>1, <1>6
<1>8. \A i \in DOMAIN records' : records'[i].sequence = i
  BY <1>1, <1>4, <1>6, <1>7 DEF Numbered
<1>9. Entries' = Entries \cup {e}
  <2>1. Entries' = {records'[i].event : i \in DOMAIN records'} /\ Entries = {records[i].event : i \in DOMAIN records}
    BY DEF Entries
  <2>2. \A i \in DOMAIN records : records'[i].event = records[i].event
    BY <1>1, <1>6
  <2>3. records'[Len(records) + 1].event = e
    BY <1>4, <1>6
  <2>4. ASSUME NEW c PROVE c \in Entries' <=> c \in Entries \cup {e}
    <3>1. c \in Entries' <=> \E i \in DOMAIN records' : c = records'[i].event
      BY <2>1
    <3>2. c \in Entries <=> \E i \in DOMAIN records : c = records[i].event
      BY <2>1
    <3> QED  BY <1>7, <2>2, <2>3, <3>1, <3>2
  <2> QED  BY <2>4
<1>10. Entries' = seen'
  BY <1>9 DEF Numbered
<1>11. IsFiniteSet(seen')
       /\ Cardinality(seen \cup {e}) = IF e \in seen THEN Cardinality(seen) ELSE Cardinality(seen) + 1
  BY FS_AddElement DEF TrackerTypes
<1>12. Cardinality(seen') = Len(records')
  BY <1>6, <1>11 DEF Numbered
<1> QED  BY <1>6, <1>8, <1>10, <1>11, <1>12 DEF Numbered

\* The highest numbers after an event was recorded.
LEMMA RaisedHighest ==
    ASSUME TrackerTypes, Highest, NEW e \in Decodable,
           seen' = seen \cup {e}, highest' = [highest EXCEPT ![e.stream] = Raised(highest[e.stream], e.sequence)]
    PROVE  highest' \in [Streams -> 0..Largest] /\ Highest'
<1>1. PICK s \in Streams : s = e.stream
  BY EventFields
<1>2. PICK q \in 1..Largest : q = e.sequence
  BY EventFields
<1>3. PICK h \in 0..Largest : h = highest[s]
  BY DEF TrackerTypes
<1>4. Largest \in Int
  BY SMTT(30), EventAssumption DEF Largest
<1>5. PICK n \in 0..Largest : n = Raised(h, q) /\ n # 0 /\ h <= n /\ q <= n /\ (n = q \/ (n = h /\ h # 0))
  BY SMTT(30), <1>2, <1>3, <1>4 DEF Raised
<1>6. highest' = [highest EXCEPT ![s] = n]
  BY <1>1, <1>2, <1>3, <1>5
<1>7. highest' \in [Streams -> 0..Largest] /\ highest'[s] = n /\ \A t \in Streams : t # s => highest'[t] = highest[t]
  BY <1>6 DEF TrackerTypes
<1>8. ASSUME NEW c \in seen' PROVE c \in Decodable /\ (c \in seen \/ c = e)
  BY <1>8 DEF TrackerTypes
<1>9. ASSUME NEW t \in Streams
      PROVE  /\ highest'[t] = 0 => \A c \in seen' : c.stream # t
             /\ highest'[t] # 0 => \E c \in seen' : c.stream = t /\ c.sequence = highest'[t]
             /\ \A c \in seen' : c.stream = t => c.sequence <= highest'[t]
  <2>1. CASE t # s
    BY <1>1, <1>7, <1>8, <2>1 DEF Highest
  <2>2. CASE t = s
    <3>1. h # 0 => \E c \in seen : c.stream = s /\ c.sequence = h
      BY <1>3 DEF Highest
    <3>2. \E c \in seen' : c.stream = s /\ c.sequence = n
      BY <1>1, <1>2, <1>5, <3>1
    <3>3. ASSUME NEW c \in seen', c.stream = s PROVE c.sequence <= n
      <4>1. c.sequence <= h \/ c.sequence = q
        BY <1>2, <1>3, <1>8, <3>3 DEF Highest
      <4>2. c.sequence \in 1..Largest
        BY <1>8, EventFields
      <4> QED  BY SMTT(30), <1>3, <1>4, <1>5, <4>1, <4>2
    <3> QED  BY <1>5, <1>7, <2>2, <3>2, <3>3
  <2> QED  BY <2>1, <2>2
<1> QED  BY <1>7, <1>9 DEF Highest

\* One delivery is decoded, observed and committed, or ends the call.
LEMMA DeliverStep ==
    ASSUME IInv, Deliver
    PROVE  IInv'
<1>1. PICK frame, e, outcome : frame = Head(ingest.left) /\ e = Decoded(frame) /\ outcome = Outcome(e)
  OBVIOUS
<1>2. ingest.left \in Seq(Frames(Events)) /\ ingest.left # <<>> /\ ingest.busy
  BY DEF Deliver, IInv, IngestTypes
<1>3. frame \in Frames(Events) /\ Tail(ingest.left) \in Seq(Frames(Events)) /\ <<>> \in Seq(Frames(Events))
  BY SMTT(30), <1>1, <1>2
<1>4. e \in Decodable
  BY <1>1, <1>3, DecodedTypes
<1>5. UNCHANGED <<script, used, held, ingests, replay, replays>>
  BY DEF Deliver, replayVars
<1>6. CASE /\ ingest' = [busy |-> FALSE, left |-> <<>>] /\ UNCHANGED <<seen, highest, records, outcomes>>
  <2>1. ingest' \in [busy : BOOLEAN, left : Seq(Frames(Events))]
    BY <1>3, <1>6
  <2> QED  BY <1>5, <1>6, <2>1, IngestMoves
<1>7. CASE /\ ~(frame.form = "oversized" \/ outcome = "conflict")
           /\ ingest' = [ingest EXCEPT !.left = Tail(@)]
           /\ outcomes' = IF outcome = "duplicate" THEN outcomes
                              ELSE outcomes \cup {[event |-> e, outcome |-> outcome, before |-> seen]}
           /\ seen' = IF outcome = "duplicate" THEN seen ELSE seen \cup {e}
           /\ highest' = IF outcome = "duplicate" THEN highest
                         ELSE [highest EXCEPT ![e.stream] = Raised(@, e.sequence)]
           /\ Commit(e, outcome)
  <2>1. ingest' \in [busy : BOOLEAN, left : Seq(Frames(Events))]
    BY <1>3, <1>7 DEF IInv, IngestTypes
  <2>2. CASE outcome = "duplicate"
    BY <1>5, <1>7, <2>1, <2>2, IngestMoves DEF Commit
  <2>3. CASE outcome # "duplicate"
    <3>1. /\ outcomes' = outcomes \cup {[event |-> e, outcome |-> outcome, before |-> seen]}
          /\ seen' = seen \cup {e}
          /\ highest' = [highest EXCEPT ![e.stream] = Raised(highest[e.stream], e.sequence)]
          /\ records' = Append(records, [event |-> e, sequence |-> Len(records) + 1])
      BY <1>7, <2>3 DEF Commit
    <3>2. /\ e \notin seen
          /\ \A c \in seen : c.stream = e.stream => c.id # e.id /\ c.sequence # e.sequence
          /\ outcome = "gap" <=> highest[e.stream] # 0 /\ e.sequence > (highest[e.stream] + 1) % 2^Width
      BY <1>1, <1>7, <2>3, OutcomeMeans
    <3>3. TrackerTypes /\ Numbered /\ Highest
      BY DEF IInv
    <3>4. records' \in Seq(JournalRecords) /\ IsFiniteSet(seen') /\ Numbered'
      BY <1>4, <3>1, <3>2, <3>3, Committed
    <3>5. highest' \in [Streams -> 0..Largest] /\ Highest'
      BY <1>4, <3>1, <3>3, RaisedHighest
    <3>6. TrackerTypes'
      BY <1>4, <3>1, <3>3, <3>4, <3>5 DEF TrackerTypes
    <3>7. Unique'
      BY <3>1, <3>2 DEF IInv, Unique
    <3>8. GapMeansHole'
      <4> SUFFICES ASSUME NEW o \in outcomes'
                   PROVE  LET before == {c.sequence : c \in {d \in o.before : d.stream = o.event.stream}} IN
                          o.outcome = "gap" <=>
                              \/ Largest \in before
                              \/ before # {} /\ \E n \in 1..(o.event.sequence - 1) :
                                                  n \notin before /\ \A k \in before : k < n
        BY DEF GapMeansHole
      <4>1. CASE o \in outcomes
        BY <4>1 DEF IInv, GapMeansHole
      <4>2. CASE o = [event |-> e, outcome |-> outcome, before |-> seen]
        <5>1. o.event = e /\ o.outcome = outcome /\ o.before = seen
          BY <4>2
        <5>2. {c.sequence : c \in {d \in o.before : d.stream = o.event.stream}} = Below(e)
          BY <5>1 DEF Below
        <5>3. (highest[e.stream] # 0 /\ e.sequence > (highest[e.stream] + 1) % 2^Width) <=>
               \/ Largest \in Below(e)
               \/ (Below(e) # {} /\ \E n \in 1..(e.sequence - 1) : n \notin Below(e) /\ \A k \in Below(e) : k < n)
          BY <1>4, <3>3, GapIsHole
        <5> QED  BY <3>2, <5>1, <5>2, <5>3
      <4> QED  BY <3>1, <4>1, <4>2
    <3>9. ReplayTypes' /\ Kept' /\ ReplayComplete'
      BY <1>5, ReplayUntouched DEF IInv
    <3>10. IngestTypes' /\ HeldTypes'
      BY <1>5, <2>1 DEF IInv, IngestTypes, HeldTypes
    <3> QED  BY <3>4, <3>5, <3>6, <3>7, <3>8, <3>9, <3>10 DEF IInv
  <2> QED  BY <2>2, <2>3
<1> QED  BY <1>1, <1>6, <1>7 DEF Deliver

-----------------------------------------------------------------------------
(* Replay *)

Listed(s, r) == \E j \in DOMAIN s : s[j] = r

\* A record is still there when records are put after or before it.
LEMMA ListedConcat ==
    ASSUME NEW F, NEW s \in Seq(F), NEW t \in Seq(F), NEW r, Listed(s, r) \/ Listed(t, r)
    PROVE  Listed(s \o t, r)
<1>1. /\ DOMAIN s = 1..Len(s) /\ DOMAIN t = 1..Len(t)
      /\ DOMAIN (s \o t) = 1..(Len(s) + Len(t)) /\ Len(s) \in Nat /\ Len(t) \in Nat
  BY SMTT(30)
<1>2. ASSUME NEW i \in DOMAIN s PROVE i \in DOMAIN (s \o t) /\ (s \o t)[i] = s[i]
  BY SMTT(30), <1>1
<1>3. ASSUME NEW i \in DOMAIN t
      PROVE  i + Len(s) \in DOMAIN (s \o t) /\ (s \o t)[i + Len(s)] = t[i]
  BY SMTT(30), <1>1
<1>4. CASE Listed(s, r)
  BY <1>2, <1>4 DEF Listed
<1>5. CASE Listed(t, r)
  BY <1>3, <1>5 DEF Listed
<1> QED  BY <1>4, <1>5

\* A redacted record is a record.
LEMMA RedactedRecord ==
    ASSUME NEW r \in JournalRecords
    PROVE  [r EXCEPT !.event.digest = Altered] \in JournalRecords
<1>1. PICK d \in Decodable, n \in Nat : r = [event |-> d, sequence |-> n]
  BY DEF JournalRecords
<1>2. PICK a \in Decodable : a = [d EXCEPT !.digest = Altered]
  BY EventFields
<1>3. [r EXCEPT !.event.digest = Altered] = [r EXCEPT !.event = a]
  BY <1>1, <1>2
<1>4. PICK b : b = [r EXCEPT !.event = a]
  OBVIOUS
<1>5. b = [event |-> a, sequence |-> n]
  BY <1>1, <1>4
<1>6. b \in JournalRecords
  BY <1>5 DEF JournalRecords
<1> QED  BY <1>3, <1>4, <1>6

\* The records a list of frames decodes to.
LEMMA RecordsTypes ==
    ASSUME NEW frames \in Seq(Frames(JournalRecords))
    PROVE  /\ Records(frames) \in Seq(JournalRecords)
           /\ \A r : Has(frames, r) => Listed(Records(frames), r)
<1>1. /\ DOMAIN frames = 1..Len(frames) /\ Len(frames) \in Nat
      /\ \A i \in DOMAIN frames : frames[i] \in Frames(JournalRecords)
  BY SMTT(30)
<1>2. PICK recs : recs = Records(frames)
  OBVIOUS
<1>3. /\ DOMAIN recs = DOMAIN frames
      /\ recs = [i \in DOMAIN frames |-> recs[i]]
      /\ \A i \in DOMAIN frames :
             recs[i] = IF frames[i].form = "redacted" THEN [frames[i].payload EXCEPT !.event.digest = Altered]
                       ELSE frames[i].payload
  BY <1>2 DEF Records
<1>4. \A i \in DOMAIN frames : frames[i].payload \in JournalRecords
  BY <1>1 DEF Frames
<1>5. \A i \in DOMAIN frames : recs[i] \in JournalRecords
  BY <1>3, <1>4, RedactedRecord
<1>6. recs \in [1..Len(frames) -> JournalRecords]
  BY <1>1, <1>3, <1>5
<1>7. recs \in Seq(JournalRecords)
  BY SMTT(30), <1>1, <1>6
<1>8. \A r : Has(frames, r) => Listed(recs, r)
  BY <1>3 DEF Has, Listed
<1> QED  BY <1>2, <1>7, <1>8

\* What the steps of Replay have to keep.
LEMMA ReplayMoves ==
    ASSUME IInv, UNCHANGED ingestVars, replays' \in 0..MaxReplays,
           HeldTypes', ReplayTypes', Kept', ReplayComplete'
    PROVE  IInv'
<1>1. UNCHANGED <<seen, highest, records, outcomes>> /\ ingest' = ingest /\ ingests' = ingests
  BY DEF ingestVars
<1>2. TrackerTypes' /\ Numbered' /\ Unique' /\ Highest' /\ GapMeansHole'
  BY <1>1, TrackerUntouched DEF IInv
<1>3. IngestTypes'
  BY <1>1 DEF IInv, IngestTypes
<1> QED  BY <1>2, <1>3 DEF IInv

\* A Replay with nothing passed.
LEMMA FreshReplay ==
    ASSUME NEW state \in {"idle", "running", "returned", "failed"}, NEW after \in Nat, NEW snapshot \in Seq(JournalRecords),
           NEW q, q = [state |-> state, after |-> after, snapshot |-> snapshot, next |-> 1, result |-> <<>>, faults |-> {}]
    PROVE  q \in Replays
<1>1. <<>> \in Seq(JournalRecords) /\ 1 \in Nat \ {0}
  BY SMTT(30)
<1> QED  BY <1>1 DEF Replays

\* A Replay that failed returns nothing.
LEMMA FailedReplay ==
    ASSUME replay' = [IdleReplay EXCEPT !.state = "failed"]
    PROVE  ReplayTypes' /\ Kept' /\ ReplayComplete'
<1>1. replay' = [state |-> "failed", after |-> 0, snapshot |-> <<>>, next |-> 1, result |-> <<>>, faults |-> {}]
  BY DEF IdleReplay
<1>2. <<>> \in Seq(JournalRecords) /\ 0 \in Nat
  BY SMTT(30)
<1>3. replay' \in Replays
  BY <1>1, <1>2, FreshReplay
<1>4. replay'.state = "failed"
  BY <1>1
<1> QED  BY <1>3, <1>4 DEF ReplayTypes, Kept, ReplayComplete

\* The fields of the running Replay.
LEMMA ReplayFields ==
    ASSUME ReplayTypes
    PROVE  /\ replay = [state |-> replay.state, after |-> replay.after, snapshot |-> replay.snapshot,
                        next |-> replay.next, result |-> replay.result, faults |-> replay.faults]
           /\ replay.state \in {"idle", "running", "returned", "failed"} /\ replay.after \in Nat
           /\ replay.snapshot \in Seq(JournalRecords) /\ replay.next \in Nat \ {0}
           /\ replay.result \in Seq(JournalRecords) /\ replay.faults \in SUBSET FaultActions
BY DEF ReplayTypes, Replays

\* The snapshot, and the record the loop is at.
LEMMA SnapshotTypes ==
    ASSUME ReplayTypes
    PROVE  /\ DOMAIN replay.snapshot = 1..Len(replay.snapshot) /\ Len(replay.snapshot) \in Nat
           /\ \A i \in DOMAIN replay.snapshot :
                  /\ i \in Nat /\ replay.snapshot[i] \in JournalRecords
                  /\ i < replay.next + 1 => i < replay.next \/ i = replay.next
           /\ replay.next + 1 \in Nat \ {0}
           /\ replay.next <= Len(replay.snapshot) => replay.next \in DOMAIN replay.snapshot
           /\ ~(replay.next <= Len(replay.snapshot)) => \A i \in DOMAIN replay.snapshot : i < replay.next
<1>1. replay.snapshot \in Seq(JournalRecords) /\ replay.next \in Nat \ {0}
  BY ReplayFields
<1>2. PICK s \in Seq(JournalRecords), n \in Nat \ {0} : s = replay.snapshot /\ n = replay.next
  BY <1>1
<1>3. /\ DOMAIN s = 1..Len(s) /\ Len(s) \in Nat /\ n + 1 \in Nat \ {0}
      /\ \A i \in DOMAIN s : i \in Nat /\ s[i] \in JournalRecords /\ (i < n + 1 => i < n \/ i = n)
      /\ n <= Len(s) => n \in DOMAIN s
      /\ ~(n <= Len(s)) => \A i \in DOMAIN s : i < n
  BY SMTT(30)
<1> QED  BY <1>2, <1>3

\* A Replay begins with a snapshot of the journal.
LEMMA BeginReplayStep ==
    ASSUME IInv, NEW after \in 0..Len(records), BeginReplay(after)
    PROVE  IInv'
<1>1. records \in Seq(JournalRecords)
  BY DEF IInv, TrackerTypes
<1>2. after \in Nat /\ DOMAIN records = 1..Len(records) /\ Len(records) \in Nat
  BY SMTT(30), <1>1
<1>3. replay' = [state |-> "running", after |-> after, snapshot |-> records, next |-> 1, result |-> <<>>, faults |-> {}]
  BY DEF BeginReplay, IdleReplay
<1>4. ReplayTypes'
  BY <1>1, <1>2, <1>3, FreshReplay DEF ReplayTypes
<1>5. \A i \in DOMAIN records : ~(i < 1)
  BY SMTT(30), <1>2
<1>6. replay'.state = "running" /\ replay'.snapshot = records /\ replay'.next = 1
  BY <1>3
<1>7. Kept' /\ ReplayComplete'
  BY <1>5, <1>6 DEF Kept, ReplayComplete
<1>8. replays' \in 0..MaxReplays
  <2>1. replays \in 0..MaxReplays /\ MaxReplays \in Nat /\ replays < MaxReplays /\ replays' = replays + 1
    BY EventAssumption DEF BeginReplay, IInv, IngestTypes
  <2> QED  BY SMTT(30), <2>1
<1>9. UNCHANGED ingestVars /\ script' = script /\ used' = used /\ held' = held
  BY DEF BeginReplay
<1>10. HeldTypes'
  BY <1>9 DEF IInv, HeldTypes
<1> QED  BY <1>4, <1>7, <1>8, <1>9, <1>10, ReplayMoves

\* A record the caller has already is passed over.
LEMMA SkipRecordStep ==
    ASSUME IInv, SkipRecord
    PROVE  IInv'
<1>1. ReplayTypes /\ Kept
  BY DEF IInv
<1>2. replay' = [state |-> replay.state, after |-> replay.after, snapshot |-> replay.snapshot,
                 next |-> replay.next + 1, result |-> replay.result, faults |-> replay.faults]
  BY <1>1, ReplayFields DEF SkipRecord
<1>3. ReplayTypes'
  BY <1>1, <1>2, ReplayFields, SnapshotTypes DEF ReplayTypes, Replays
<1>4. /\ replay'.state = replay.state /\ replay'.after = replay.after /\ replay'.snapshot = replay.snapshot
      /\ replay'.next = replay.next + 1 /\ replay'.result = replay.result /\ replay'.faults = replay.faults
  BY <1>2
<1>5. replay.state = "running" /\ replay.next \in DOMAIN replay.snapshot
  BY <1>1, SnapshotTypes DEF SkipRecord, Remaining
<1>6. ~(replay.snapshot[replay.next].sequence > replay.after)
  <2>1. PICK a, b \in Nat : a = replay.snapshot[replay.next].sequence /\ b = replay.after
    BY <1>1, <1>5, SnapshotTypes, ReplayFields DEF JournalRecords
  <2>2. a <= b
    BY <2>1 DEF SkipRecord, Current
  <2>3. ~(a > b)
    BY SMTT(30), <2>2
  <2> QED  BY <2>1, <2>3
<1>7. UNCHANGED ingestVars /\ script' = script /\ used' = used /\ held' = held /\ replays' = replays
  BY DEF SkipRecord
<1>8. Kept'
  <2> SUFFICES ASSUME replay'.faults \cap {"replay_gap", "redact"} = {}, NEW i \in DOMAIN replay.snapshot,
                      i < replay.next + 1, replay.snapshot[i].sequence > replay.after
               PROVE  Returned(replay.snapshot[i])' \/ Has(held'["replay"], replay'.snapshot[i])
    BY <1>4 DEF Kept
  <2>1. i < replay.next
    BY <1>1, <1>6, SnapshotTypes
  <2>2. Returned(replay.snapshot[i]) \/ Has(held["replay"], replay.snapshot[i])
    BY <1>1, <1>4, <1>5, <2>1 DEF Kept
  <2> QED  BY <1>4, <1>7, <2>2 DEF Returned
<1>9. ReplayComplete'
  BY <1>4, <1>5 DEF ReplayComplete
<1>10. HeldTypes' /\ replays' \in 0..MaxReplays
  BY <1>7 DEF IInv, HeldTypes, IngestTypes
<1> QED  BY <1>3, <1>7, <1>8, <1>9, <1>10, ReplayMoves

\* A record goes through the fault plan into the result or is held back.
LEMMA ReplayRecordStep ==
    ASSUME IInv, ReplayRecord
    PROVE  IInv'
<1>1. HeldTypes /\ ReplayTypes /\ Kept
  BY DEF IInv
<1>2. UNCHANGED ingestVars /\ script' = script /\ replays' = replays /\ replay.state = "running"
  BY DEF ReplayRecord, Remaining
<1>3. PICK chosen \in SUBSET Unused, cancelled \in BOOLEAN :
          LET applied == Apply(Plain(Current), held["replay"], script, chosen, cancelled)
          IN /\ used' = used \cup chosen
             /\ held' = [held EXCEPT !["replay"] = applied.held]
             /\ replay' = IF applied.failed \/ Undecodable(applied.frames)
                          THEN [IdleReplay EXCEPT !.state = "failed"]
                          ELSE [replay EXCEPT !.next = @ + 1,
                                    !.result = @ \o Records(applied.frames),
                                    !.faults = @ \cup {script[i] : i \in chosen}]
  BY DEF ReplayRecord
<1>4. PICK applied : applied = Apply(Plain(Current), held["replay"], script, chosen, cancelled)
  OBVIOUS
<1>5. /\ used' = used \cup chosen /\ held' = [held EXCEPT !["replay"] = applied.held]
      /\ replay' = IF applied.failed \/ Undecodable(applied.frames)
                   THEN [IdleReplay EXCEPT !.state = "failed"]
                   ELSE [replay EXCEPT !.next = @ + 1,
                             !.result = @ \o Records(applied.frames),
                             !.faults = @ \cup {script[i] : i \in chosen}]
  BY <1>3, <1>4
<1>6. replay.next \in DOMAIN replay.snapshot /\ Current = replay.snapshot[replay.next] /\ Current \in JournalRecords
  BY <1>1, SnapshotTypes DEF ReplayRecord, Remaining, Current
<1>7. Applies(JournalRecords, "replay", Current, chosen, cancelled, applied)
  BY <1>1, <1>2, <1>4, <1>5, <1>6 DEF Applies, Points, HeldTypes
<1>8. Applied(JournalRecords, "replay", Current, chosen, applied)
  BY <1>1, <1>7, ApplyHolds
<1>9. HeldTypes'
  <2>1. "ingest" \in Points /\ "ingest" # "replay"
    BY DEF Points
  <2> QED  BY <1>1, <1>8, <2>1 DEF Applied, HeldTypes
<1>10. replays' \in 0..MaxReplays
  BY <1>2 DEF IInv, IngestTypes
<1>11. CASE applied.failed \/ Undecodable(applied.frames)
  <2>1. ReplayTypes' /\ Kept' /\ ReplayComplete'
    BY <1>5, <1>11, FailedReplay
  <2> QED  BY <1>2, <1>9, <1>10, <2>1, ReplayMoves
<1>12. CASE ~(applied.failed \/ Undecodable(applied.frames))
  <2>1. PICK hit : hit = {script[i] : i \in chosen}
    OBVIOUS
  <2>2. /\ applied.frames \in Seq(Frames(JournalRecords)) /\ hit \subseteq FaultActions
        /\ held'["replay"] = applied.held
        /\ hit \cap {"replay_gap", "redact"} = {} =>
             \A r : r = Current \/ Has(held["replay"], r) => Has(applied.frames, r) \/ Has(applied.held, r)
    BY <1>8, <1>12, <2>1 DEF Applied
  <2>3. PICK recs \in Seq(JournalRecords) :
            recs = Records(applied.frames) /\ \A r : Has(applied.frames, r) => Listed(recs, r)
    BY <2>2, RecordsTypes
  <2>4. PICK result : result = replay.result \o recs
    OBVIOUS
  <2>5. /\ result \in Seq(JournalRecords)
        /\ \A r : Listed(replay.result, r) \/ Listed(recs, r) => Listed(result, r)
    BY <1>1, <2>3, <2>4, ReplayFields, Concat, ListedConcat
  <2>6. replay' = [replay EXCEPT !.next = @ + 1, !.result = result, !.faults = @ \cup hit]
    BY <1>5, <1>12, <2>1, <2>3, <2>4
  <2>7. replay' = [state |-> replay.state, after |-> replay.after, snapshot |-> replay.snapshot,
                   next |-> replay.next + 1, result |-> result, faults |-> replay.faults \cup hit]
    BY <1>1, <2>6, ReplayFields
  <2>8. replay.faults \cup hit \in SUBSET FaultActions
    BY <1>1, <2>2, ReplayFields
  <2>9. ReplayTypes'
    BY <1>1, <2>5, <2>7, <2>8, ReplayFields, SnapshotTypes DEF ReplayTypes, Replays
  <2>10. /\ replay'.state = replay.state /\ replay'.after = replay.after /\ replay'.snapshot = replay.snapshot
         /\ replay'.next = replay.next + 1 /\ replay'.result = result /\ replay'.faults = replay.faults \cup hit
    BY <2>7
  <2>11. Kept'
    <3> SUFFICES ASSUME (replay.faults \cup hit) \cap {"replay_gap", "redact"} = {}, NEW i \in DOMAIN replay.snapshot,
                        i < replay.next + 1, replay.snapshot[i].sequence > replay.after
                 PROVE  Listed(result, replay.snapshot[i]) \/ Has(applied.held, replay.snapshot[i])
      BY <2>2, <2>10 DEF Kept, Returned, Listed
    <3>1. replay.faults \cap {"replay_gap", "redact"} = {} /\ hit \cap {"replay_gap", "redact"} = {}
      OBVIOUS
    <3>2. i < replay.next \/ i = replay.next
      BY <1>1, SnapshotTypes
    <3>3. Listed(replay.result, replay.snapshot[i]) \/ Has(held["replay"], replay.snapshot[i])
          \/ replay.snapshot[i] = Current
      BY <1>1, <1>2, <1>6, <3>1, <3>2 DEF Kept, Returned, Listed
    <3> QED  BY <2>2, <2>3, <2>5, <3>1, <3>3
  <2>12. ReplayComplete'
    BY <1>2, <2>10 DEF ReplayComplete
  <2> QED  BY <1>2, <1>9, <1>10, <2>9, <2>11, <2>12, ReplayMoves
<1> QED  BY <1>11, <1>12

\* What is held back is released when the snapshot is exhausted.
LEMMA FlushReplayStep ==
    ASSUME IInv, FlushReplay
    PROVE  IInv'
<1>1. HeldTypes /\ ReplayTypes /\ Kept
  BY DEF IInv
<1>2. /\ UNCHANGED ingestVars /\ script' = script /\ used' = used /\ replays' = replays
      /\ replay.state = "running" /\ ~(replay.next <= Len(replay.snapshot))
      /\ held' = [held EXCEPT !["replay"] = <<>>]
  BY DEF FlushReplay, Remaining
<1>3. HeldTypes'
  <2>1. "ingest" \in Points /\ "replay" \in Points /\ "ingest" # "replay"
    BY DEF Points
  <2>2. held' = [q \in Points |-> held'[q]] /\ held'["replay"] = <<>> /\ held'["ingest"] = held["ingest"]
    BY <1>1, <1>2, <2>1, HeldAfter
  <2>3. <<>> \in Seq(Frames(JournalRecords))
    BY SMTT(30)
  <2> QED  BY <1>1, <1>2, <2>2, <2>3 DEF HeldTypes
<1>4. replays' \in 0..MaxReplays
  BY <1>2 DEF IInv, IngestTypes
<1>5. CASE Undecodable(held["replay"])
  <2>1. ReplayTypes' /\ Kept' /\ ReplayComplete'
    BY <1>5, FailedReplay DEF FlushReplay
  <2> QED  BY <1>2, <1>3, <1>4, <2>1, ReplayMoves
<1>6. CASE ~Undecodable(held["replay"])
  <2>1. held["replay"] \in Seq(Frames(JournalRecords))
    BY <1>1 DEF HeldTypes
  <2>2. PICK recs \in Seq(JournalRecords) :
            recs = Records(held["replay"]) /\ \A r : Has(held["replay"], r) => Listed(recs, r)
    BY <2>1, RecordsTypes
  <2>3. PICK result : result = replay.result \o recs
    OBVIOUS
  <2>4. /\ result \in Seq(JournalRecords)
        /\ \A r : Listed(replay.result, r) \/ Listed(recs, r) => Listed(result, r)
    BY <1>1, <2>2, <2>3, ReplayFields, Concat, ListedConcat
  <2>5. replay' = [replay EXCEPT !.state = "returned", !.result = result]
    BY <1>6, <2>2, <2>3 DEF FlushReplay
  <2>6. replay' = [state |-> "returned", after |-> replay.after, snapshot |-> replay.snapshot,
                   next |-> replay.next, result |-> result, faults |-> replay.faults]
    BY <1>1, <2>5, ReplayFields
  <2>7. ReplayTypes'
    BY <1>1, <2>4, <2>6, ReplayFields DEF ReplayTypes, Replays
  <2>8. /\ replay'.state = "returned" /\ replay'.after = replay.after /\ replay'.snapshot = replay.snapshot
        /\ replay'.result = result /\ replay'.faults = replay.faults
    BY <2>6
  <2>9. Kept'
    BY <2>8 DEF Kept
  <2>10. ReplayComplete'
    <3> SUFFICES ASSUME replay.faults \cap {"replay_gap", "redact"} = {}, NEW i \in DOMAIN replay.snapshot,
                        replay.snapshot[i].sequence > replay.after
                 PROVE  Listed(result, replay.snapshot[i])
      BY <2>8 DEF ReplayComplete, Listed
    <3>1. i < replay.next
      BY <1>1, <1>2, SnapshotTypes
    <3>2. Listed(replay.result, replay.snapshot[i]) \/ Has(held["replay"], replay.snapshot[i])
      BY <1>1, <1>2, <3>1 DEF Kept, Returned, Listed
    <3> QED  BY <2>2, <2>4, <3>2
  <2> QED  BY <1>2, <1>3, <1>4, <2>7, <2>9, <2>10, ReplayMoves
<1> QED  BY <1>5, <1>6

-----------------------------------------------------------------------------
(* Theorems *)

\* The invariant holds initially,
LEMMA InitIInv ==
    ASSUME Init
    PROVE  IInv
<1>1. /\ script \in Scripts /\ seen = {} /\ highest = [s \in Streams |-> 0] /\ records = <<>> /\ used = {}
      /\ held = [p \in Points |-> <<>>] /\ ingest = [busy |-> FALSE, left |-> <<>>] /\ outcomes = {}
      /\ replay = IdleReplay /\ ingests = 0 /\ replays = 0
  BY DEF Init
<1>2. /\ <<>> \in Seq(JournalRecords) /\ <<>> \in Seq(Frames(Events)) /\ <<>> \in Seq(Frames(JournalRecords))
      /\ DOMAIN <<>> = {} /\ Len(<<>>) = 0 /\ 0 \in Nat
  BY SMTT(30)
<1>3. 0 \in 0..MaxIngests /\ 0 \in 0..MaxReplays
  <2>1. MaxIngests \in Nat /\ MaxReplays \in Nat
    BY EventAssumption
  <2> QED  BY SMTT(30), <2>1
<1>4. 0 \in 0..Largest
  <2>1. PICK top \in Nat \ {0} : top = 2^Width
    BY EventAssumption
  <2>2. Largest = top - 1
    BY <2>1 DEF Largest
  <2> QED  BY SMTT(30), <2>2
<1>5. TrackerTypes
  <2>1. IsFiniteSet({})
    BY FS_EmptySet
  <2> QED  BY <1>1, <1>2, <1>4, <2>1 DEF TrackerTypes
<1>6. IngestTypes
  BY <1>1, <1>2, <1>3 DEF IngestTypes
<1>7. HeldTypes
  <2>1. script \in Seq(FaultActions)
    BY <1>1, EventAssumption
  <2>2. "ingest" \in Points /\ "replay" \in Points
    BY DEF Points
  <2> QED  BY <1>1, <1>2, <2>1, <2>2 DEF HeldTypes
<1>8. ReplayTypes /\ replay.state = "idle"
  <2>1. replay = [state |-> "idle", after |-> 0, snapshot |-> <<>>, next |-> 1, result |-> <<>>, faults |-> {}]
    BY <1>1 DEF IdleReplay
  <2>2. replay \in Replays
    BY <1>2, <2>1, FreshReplay
  <2> QED  BY <2>1, <2>2 DEF ReplayTypes
<1>9. Kept /\ ReplayComplete
  BY <1>8 DEF Kept, ReplayComplete
<1>10. Numbered
  <2>1. Cardinality({}) = 0
    BY FS_EmptySet
  <2> QED  BY <1>1, <1>2, <2>1 DEF Numbered, Entries
<1>11. Unique /\ Highest /\ GapMeansHole
  BY <1>1 DEF Unique, Highest, GapMeansHole
<1> QED  BY <1>5, <1>6, <1>7, <1>8, <1>9, <1>10, <1>11 DEF IInv

\* is kept by every step,
LEMMA NextIInv ==
    ASSUME IInv, [Next]_vars
    PROVE  IInv'
<1>1. CASE UNCHANGED vars
  <2>1. UNCHANGED ingestVars /\ script' = script /\ used' = used /\ held' = held /\ replay' = replay /\ replays' = replays
    BY <1>1 DEF vars, replayVars
  <2>2. ReplayTypes' /\ Kept' /\ ReplayComplete'
    BY <2>1, ReplayUntouched DEF IInv
  <2>3. HeldTypes' /\ replays' \in 0..MaxReplays
    BY <2>1 DEF IInv, HeldTypes, IngestTypes
  <2> QED  BY <2>1, <2>2, <2>3, ReplayMoves
<1>2. ASSUME NEW e \in Events, BeginIngest(e) PROVE IInv'
  BY <1>2, BeginIngestStep
<1>3. CASE Deliver
  BY <1>3, DeliverStep
<1>4. CASE EndIngest
  BY <1>4, EndIngestStep
<1>5. ASSUME NEW after \in 0..Len(records), BeginReplay(after) PROVE IInv'
  BY <1>5, BeginReplayStep
<1>6. CASE SkipRecord
  BY <1>6, SkipRecordStep
<1>7. CASE ReplayRecord
  BY <1>7, ReplayRecordStep
<1>8. CASE FlushReplay
  BY <1>8, FlushReplayStep
<1> QED  BY <1>1, <1>2, <1>3, <1>4, <1>5, <1>6, <1>7, <1>8 DEF Next

\* and so holds always.
LEMMA AlwaysIInv == Spec => []IInv
<1>1. Init => IInv
  BY InitIInv
<1>2. IInv /\ [Next]_vars => IInv'
  BY NextIInv
<1> QED  BY <1>1, <1>2, PTL DEF Spec

\* The journal numbers its records without a hole, holds exactly what the tracker has
\* seen, and binds an ID and a sequence number of a stream to one content, however
\* the fault plan duplicates, reorders, alters or drops what Ingest delivers.
THEOREM JournalIsSound == Spec => []JournalSound
<1>1. IInv => JournalSound
  <2> SUFFICES ASSUME IInv PROVE JournalSound
    OBVIOUS
  <2>1. TypeOK
    <3>1. \A c \in seen : c.sequence \in 1..Largest
      BY EventFields DEF IInv, TrackerTypes
    <3>2. replay.state \in {"idle", "running", "returned", "failed"}
      BY ReplayFields DEF IInv
    <3> QED  BY <3>1, <3>2 DEF IInv, TypeOK, TrackerTypes, IngestTypes, HeldTypes
  <2>2. JournalExact
    BY DEF IInv, Numbered, Unique, JournalExact
  <2> QED  BY <2>1, <2>2 DEF JournalSound
<1> QED  BY <1>1, AlwaysIInv, PTL

\* SequenceTracker.Observe reports a gap exactly when the event jumps over a number
\* of its stream that is still missing, or its stream has reached the largest number.
THEOREM GapsAreHoles == Spec => []GapMeansHole
<1>1. IInv => GapMeansHole
  BY DEF IInv
<1> QED  BY <1>1, AlwaysIInv, PTL

\* A Replay no fault dropped from, altered or failed returns every record of its
\* snapshot after the sequence it was given, those held back for reordering included.
THEOREM ReplayIsComplete == Spec => []ReplayComplete
<1>1. IInv => ReplayComplete
  BY DEF IInv
<1> QED  BY <1>1, AlwaysIInv, PTL
=============================================================================
