----------------------- MODULE TerminalRegistryProofs -----------------------
(***************************************************************************)
(* Proofs about the Go client's registry of terminal flows, for any finite *)
(* set of calls, any streams and any limits.                               *)
(*                                                                         *)
(* The inductive invariant says which flow a call may hold at each of its  *)
(* steps (Placed, Created), who holds a flow's mutex (Mutex), that the     *)
(* check made under the mutex still holds when the flow is changed         *)
(* (Current), what the counters count (Owed, Counted, Limited), and why a  *)
(* flow that is being taken down may go (Remembered).                      *)
(*                                                                         *)
(* Each of the eighteen steps of a call is first reduced to its effect     *)
(* (Effect): how the call moves, what it does to one flow, to the registry *)
(* and to one mutex.  The parts of the invariant that do not count are     *)
(* shown to survive an effect; then come the parts that count, the steps   *)
(* of the reader, and the theorems.                                        *)
(***************************************************************************)
EXTENDS TerminalRegistry, FiniteSetTheorems, TLAPS

Places == {"start", "calling", "bind", "complete", "snapshot", "scan", "mark", "close", "delete",
           "lock", "active", "writing", "returned"}
Told == {None, "ok", "refused", "invalid", "ambiguous"}
CallRecords == [pc : Places, on : Calls \cup {None}, told : Told, sub : Subs \cup {None},
                scan : SUBSET Calls]
FlowRecords == [digest : {Digest[c] : c \in Calls} \cup {None}, pending : Int, established : BOOLEAN,
                unknown : BOOLEAN, retiring : BOOLEAN, closed : BOOLEAN, sub : Subs \cup {None},
                owed : Int, detached : BOOLEAN]

\* The variables' types.
CallTypes == call \in [Calls -> CallRecords]
FlowTypes == flow \in [Calls -> FlowRecords]
LockTypes ==
    /\ holder \in [Calls -> Calls \cup {None, "reader"}]
    /\ reader \in [pc : {"idle", "lock", "active", "apply"}, on : Calls \cup {None}]
OtherTypes ==
    /\ workload \in Workloads /\ registry \in [Keys -> Calls \cup {None}]
    /\ streaming \subseteq Keys /\ chunks \in 0..MaxChunks /\ failed \in BOOLEAN
Types == CallTypes /\ FlowTypes /\ LockTypes /\ OtherTypes

-----------------------------------------------------------------------------
(* Types *)

USE Zenon

LEMMA InitTypes == Init => Types
<1> SUFFICES ASSUME Init PROVE Types
  OBVIOUS
<1>1. CallTypes
  BY DEF Init, CallTypes, CallRecords, Places, Told
<1>2. FlowTypes
  BY SMTT(30) DEF Init, FlowTypes, FlowRecords, NoFlow
<1>3. LockTypes
  BY DEF Init, LockTypes, Idle
<1>4. workload \in Workloads /\ streaming \subseteq Keys /\ failed \in BOOLEAN
  BY DEF Init
<1>5. chunks \in 0..MaxChunks
  BY SMTT(30), RegistryAssumption DEF Init
<1>6. registry \in [Keys -> Calls \cup {None}]
  BY DEF Init
<1> QED  BY <1>1, <1>2, <1>3, <1>4, <1>5, <1>6 DEF Types, OtherTypes

\* A step gives call c the place p, the flow o, the answer t, the subscription s and
\* the flows n to scan, and leaves the other calls alone.
Becomes(c, p, o, t, s, n) ==
    /\ CallTypes'
    /\ call'[c].pc = p /\ call'[c].on = o /\ call'[c].told = t /\ call'[c].sub = s
    /\ call'[c].scan = n
    /\ \A d \in Calls : d # c => call'[d] = call[d]

LEMMA Replaced ==
    ASSUME CallTypes, NEW c \in Calls, NEW q \in CallRecords, call' = [call EXCEPT ![c] = q]
    PROVE  Becomes(c, q.pc, q.on, q.told, q.sub, q.scan)
<1>1. CallTypes'
  BY DEF CallTypes
<1>2. call'[c] = q /\ \A d \in Calls : d # c => call'[d] = call[d]
  BY DEF CallTypes
<1> QED  BY <1>1, <1>2 DEF Becomes

\* The forms that updates of a call take.
LEMMA BecomesAt ==
    ASSUME CallTypes, NEW c \in Calls, NEW p \in Places,
           call' = [call EXCEPT ![c].pc = p]
    PROVE  Becomes(c, p, call[c].on, call[c].told, call[c].sub, call[c].scan)
<1>1. PICK r \in CallRecords : r = call[c]
  BY DEF CallTypes
<1>2. PICK q : q = [r EXCEPT !.pc = p]
  OBVIOUS
<1>3. q \in CallRecords
  BY <1>1, <1>2 DEF CallRecords
<1>4. q.pc = p /\ q.on = r.on /\ q.told = r.told /\ q.sub = r.sub /\ q.scan = r.scan
  BY <1>1, <1>2 DEF CallRecords
<1>5. call' = [call EXCEPT ![c] = q]
  BY <1>1, <1>2 DEF CallTypes
<1>6. Becomes(c, q.pc, q.on, q.told, q.sub, q.scan)
  BY <1>3, <1>5, Replaced
<1> QED  BY <1>1, <1>4, <1>6

LEMMA BecomesReturned ==
    ASSUME CallTypes, NEW c \in Calls, NEW p \in Places, NEW t \in Told,
           call' = [call EXCEPT ![c].pc = p, ![c].told = t]
    PROVE  Becomes(c, p, call[c].on, t, call[c].sub, call[c].scan)
<1>1. PICK r \in CallRecords : r = call[c]
  BY DEF CallTypes
<1>2. PICK q : q = [r EXCEPT !.pc = p, !.told = t]
  OBVIOUS
<1>3. q \in CallRecords
  BY <1>1, <1>2 DEF CallRecords
<1>4. q.pc = p /\ q.on = r.on /\ q.told = t /\ q.sub = r.sub /\ q.scan = r.scan
  BY <1>1, <1>2 DEF CallRecords
<1>5. call' = [call EXCEPT ![c] = q]
  BY <1>1, <1>2 DEF CallTypes
<1>6. Becomes(c, q.pc, q.on, q.told, q.sub, q.scan)
  BY <1>3, <1>5, Replaced
<1> QED  BY <1>1, <1>4, <1>6

LEMMA BecomesUsing ==
    ASSUME CallTypes, NEW c \in Calls, NEW p \in Places, NEW o \in Calls \cup {None},
           call' = [call EXCEPT ![c].pc = p, ![c].on = o]
    PROVE  Becomes(c, p, o, call[c].told, call[c].sub, call[c].scan)
<1>1. PICK r \in CallRecords : r = call[c]
  BY DEF CallTypes
<1>2. PICK q : q = [r EXCEPT !.pc = p, !.on = o]
  OBVIOUS
<1>3. q \in CallRecords
  BY <1>1, <1>2 DEF CallRecords
<1>4. q.pc = p /\ q.on = o /\ q.told = r.told /\ q.sub = r.sub /\ q.scan = r.scan
  BY <1>1, <1>2 DEF CallRecords
<1>5. call' = [call EXCEPT ![c] = q]
  BY <1>1, <1>2 DEF CallTypes
<1>6. Becomes(c, q.pc, q.on, q.told, q.sub, q.scan)
  BY <1>3, <1>5, Replaced
<1> QED  BY <1>1, <1>4, <1>6

LEMMA BecomesNaming ==
    ASSUME CallTypes, NEW c \in Calls, NEW p \in Places, NEW s \in Subs \cup {None},
           call' = [call EXCEPT ![c].pc = p, ![c].sub = s]
    PROVE  Becomes(c, p, call[c].on, call[c].told, s, call[c].scan)
<1>1. PICK r \in CallRecords : r = call[c]
  BY DEF CallTypes
<1>2. PICK q : q = [r EXCEPT !.pc = p, !.sub = s]
  OBVIOUS
<1>3. q \in CallRecords
  BY <1>1, <1>2 DEF CallRecords
<1>4. q.pc = p /\ q.on = r.on /\ q.told = r.told /\ q.sub = s /\ q.scan = r.scan
  BY <1>1, <1>2 DEF CallRecords
<1>5. call' = [call EXCEPT ![c] = q]
  BY <1>1, <1>2 DEF CallTypes
<1>6. Becomes(c, q.pc, q.on, q.told, q.sub, q.scan)
  BY <1>3, <1>5, Replaced
<1> QED  BY <1>1, <1>4, <1>6

LEMMA BecomesConcluded ==
    ASSUME CallTypes, NEW c \in Calls, NEW p \in Places, NEW t \in Told, NEW s \in Subs \cup {None},
           call' = [call EXCEPT ![c].pc = p, ![c].told = t, ![c].sub = s]
    PROVE  Becomes(c, p, call[c].on, t, s, call[c].scan)
<1>1. PICK r \in CallRecords : r = call[c]
  BY DEF CallTypes
<1>2. PICK q : q = [r EXCEPT !.pc = p, !.told = t, !.sub = s]
  OBVIOUS
<1>3. q \in CallRecords
  BY <1>1, <1>2 DEF CallRecords
<1>4. q.pc = p /\ q.on = r.on /\ q.told = t /\ q.sub = s /\ q.scan = r.scan
  BY <1>1, <1>2 DEF CallRecords
<1>5. call' = [call EXCEPT ![c] = q]
  BY <1>1, <1>2 DEF CallTypes
<1>6. Becomes(c, q.pc, q.on, q.told, q.sub, q.scan)
  BY <1>3, <1>5, Replaced
<1> QED  BY <1>1, <1>4, <1>6

LEMMA BecomesRefused ==
    ASSUME CallTypes, NEW c \in Calls, NEW t \in Told, NEW p \in Places,
           call' = [call EXCEPT ![c].told = t, ![c].pc = p]
    PROVE  Becomes(c, p, call[c].on, t, call[c].sub, call[c].scan)
<1>1. PICK r \in CallRecords : r = call[c]
  BY DEF CallTypes
<1>2. PICK q : q = [r EXCEPT !.told = t, !.pc = p]
  OBVIOUS
<1>3. q \in CallRecords
  BY <1>1, <1>2 DEF CallRecords
<1>4. q.pc = p /\ q.on = r.on /\ q.told = t /\ q.sub = r.sub /\ q.scan = r.scan
  BY <1>1, <1>2 DEF CallRecords
<1>5. call' = [call EXCEPT ![c] = q]
  BY <1>1, <1>2 DEF CallTypes
<1>6. Becomes(c, q.pc, q.on, q.told, q.sub, q.scan)
  BY <1>3, <1>5, Replaced
<1> QED  BY <1>1, <1>4, <1>6

LEMMA BecomesScanning ==
    ASSUME CallTypes, NEW c \in Calls, NEW p \in Places, NEW n \in SUBSET Calls,
           call' = [call EXCEPT ![c].pc = p, ![c].scan = n]
    PROVE  Becomes(c, p, call[c].on, call[c].told, call[c].sub, n)
<1>1. PICK r \in CallRecords : r = call[c]
  BY DEF CallTypes
<1>2. PICK q : q = [r EXCEPT !.pc = p, !.scan = n]
  OBVIOUS
<1>3. q \in CallRecords
  BY <1>1, <1>2 DEF CallRecords
<1>4. q.pc = p /\ q.on = r.on /\ q.told = r.told /\ q.sub = r.sub /\ q.scan = n
  BY <1>1, <1>2 DEF CallRecords
<1>5. call' = [call EXCEPT ![c] = q]
  BY <1>1, <1>2 DEF CallTypes
<1>6. Becomes(c, q.pc, q.on, q.told, q.sub, q.scan)
  BY <1>3, <1>5, Replaced
<1> QED  BY <1>1, <1>4, <1>6

LEMMA BecomesFound ==
    ASSUME CallTypes, NEW c \in Calls, NEW p \in Places, NEW o \in Calls \cup {None}, NEW n \in SUBSET Calls,
           call' = [call EXCEPT ![c].pc = p, ![c].on = o, ![c].scan = n]
    PROVE  Becomes(c, p, o, call[c].told, call[c].sub, n)
<1>1. PICK r \in CallRecords : r = call[c]
  BY DEF CallTypes
<1>2. PICK q : q = [r EXCEPT !.pc = p, !.on = o, !.scan = n]
  OBVIOUS
<1>3. q \in CallRecords
  BY <1>1, <1>2 DEF CallRecords
<1>4. q.pc = p /\ q.on = o /\ q.told = r.told /\ q.sub = r.sub /\ q.scan = n
  BY <1>1, <1>2 DEF CallRecords
<1>5. call' = [call EXCEPT ![c] = q]
  BY <1>1, <1>2 DEF CallTypes
<1>6. Becomes(c, q.pc, q.on, q.told, q.sub, q.scan)
  BY <1>3, <1>5, Replaced
<1> QED  BY <1>1, <1>4, <1>6

LEMMA BecomesPast ==
    ASSUME CallTypes, NEW c \in Calls, NEW n \in SUBSET Calls,
           call' = [call EXCEPT ![c].scan = n]
    PROVE  Becomes(c, call[c].pc, call[c].on, call[c].told, call[c].sub, n)
<1>1. PICK r \in CallRecords : r = call[c]
  BY DEF CallTypes
<1>2. PICK q : q = [r EXCEPT !.scan = n]
  OBVIOUS
<1>3. q \in CallRecords
  BY <1>1, <1>2 DEF CallRecords
<1>4. q.pc = r.pc /\ q.on = r.on /\ q.told = r.told /\ q.sub = r.sub /\ q.scan = n
  BY <1>1, <1>2 DEF CallRecords
<1>5. call' = [call EXCEPT ![c] = q]
  BY <1>1, <1>2 DEF CallTypes
<1>6. Becomes(c, q.pc, q.on, q.told, q.sub, q.scan)
  BY <1>3, <1>5, Replaced
<1> QED  BY <1>1, <1>4, <1>6

\* A step leaves the flows other than f alone.
OtherFlows(f) == \A g \in Calls : g # f => flow'[g] = flow[g]

LEMMA FlowReplaced ==
    ASSUME FlowTypes, NEW f \in Calls, NEW q \in FlowRecords, flow' = [flow EXCEPT ![f] = q]
    PROVE  FlowTypes' /\ OtherFlows(f) /\ flow'[f] = q
BY DEF FlowTypes, OtherFlows

LEMMA FlowShared ==
    ASSUME FlowTypes, NEW f \in Calls, NEW p \in Int,
           flow' = [flow EXCEPT ![f].pending = p]
    PROVE  /\ FlowTypes' /\ OtherFlows(f)
           /\ flow'[f].pending = p
           /\ flow'[f].digest = flow[f].digest /\ flow'[f].established = flow[f].established
           /\ flow'[f].unknown = flow[f].unknown /\ flow'[f].retiring = flow[f].retiring
           /\ flow'[f].closed = flow[f].closed /\ flow'[f].sub = flow[f].sub
           /\ flow'[f].owed = flow[f].owed /\ flow'[f].detached = flow[f].detached
<1>1. PICK v \in FlowRecords : v = flow[f]
  BY DEF FlowTypes
<1>2. PICK q : q = [v EXCEPT !.pending = p]
  OBVIOUS
<1>3. q \in FlowRecords
  BY <1>1, <1>2 DEF FlowRecords
<1>4. /\ q.pending = p
      /\ q.digest = v.digest /\ q.established = v.established /\ q.unknown = v.unknown /\ q.retiring = v.retiring
      /\ q.closed = v.closed /\ q.sub = v.sub /\ q.owed = v.owed /\ q.detached = v.detached
  BY <1>1, <1>2 DEF FlowRecords
<1>5. flow' = [flow EXCEPT ![f] = q]
  BY <1>1, <1>2 DEF FlowTypes
<1>6. FlowTypes' /\ OtherFlows(f) /\ flow'[f] = q
  BY <1>3, <1>5, FlowReplaced
<1> QED  BY <1>1, <1>4, <1>6

LEMMA FlowFresh ==
    ASSUME FlowTypes, NEW f \in Calls, NEW d \in {Digest[c] : c \in Calls} \cup {None}, NEW p \in Int,
           flow' = [flow EXCEPT ![f].digest = d, ![f].pending = p]
    PROVE  /\ FlowTypes' /\ OtherFlows(f)
           /\ flow'[f].digest = d /\ flow'[f].pending = p
           /\ flow'[f].established = flow[f].established /\ flow'[f].unknown = flow[f].unknown
           /\ flow'[f].retiring = flow[f].retiring /\ flow'[f].closed = flow[f].closed
           /\ flow'[f].sub = flow[f].sub /\ flow'[f].owed = flow[f].owed
           /\ flow'[f].detached = flow[f].detached
<1>1. PICK v \in FlowRecords : v = flow[f]
  BY DEF FlowTypes
<1>2. PICK q : q = [v EXCEPT !.digest = d, !.pending = p]
  OBVIOUS
<1>3. q \in FlowRecords
  BY <1>1, <1>2 DEF FlowRecords
<1>4. /\ q.digest = d /\ q.pending = p
      /\ q.established = v.established /\ q.unknown = v.unknown /\ q.retiring = v.retiring /\ q.closed = v.closed
      /\ q.sub = v.sub /\ q.owed = v.owed /\ q.detached = v.detached
  BY <1>1, <1>2 DEF FlowRecords
<1>5. flow' = [flow EXCEPT ![f] = q]
  BY <1>1, <1>2 DEF FlowTypes
<1>6. FlowTypes' /\ OtherFlows(f) /\ flow'[f] = q
  BY <1>3, <1>5, FlowReplaced
<1> QED  BY <1>1, <1>4, <1>6

LEMMA FlowBound ==
    ASSUME FlowTypes, NEW f \in Calls, NEW s \in Subs \cup {None},
           flow' = [flow EXCEPT ![f].sub = s]
    PROVE  /\ FlowTypes' /\ OtherFlows(f)
           /\ flow'[f].sub = s
           /\ flow'[f].digest = flow[f].digest /\ flow'[f].pending = flow[f].pending
           /\ flow'[f].established = flow[f].established /\ flow'[f].unknown = flow[f].unknown
           /\ flow'[f].retiring = flow[f].retiring /\ flow'[f].closed = flow[f].closed
           /\ flow'[f].owed = flow[f].owed /\ flow'[f].detached = flow[f].detached
<1>1. PICK v \in FlowRecords : v = flow[f]
  BY DEF FlowTypes
<1>2. PICK q : q = [v EXCEPT !.sub = s]
  OBVIOUS
<1>3. q \in FlowRecords
  BY <1>1, <1>2 DEF FlowRecords
<1>4. /\ q.sub = s
      /\ q.digest = v.digest /\ q.pending = v.pending /\ q.established = v.established /\ q.unknown = v.unknown
      /\ q.retiring = v.retiring /\ q.closed = v.closed /\ q.owed = v.owed /\ q.detached = v.detached
  BY <1>1, <1>2 DEF FlowRecords
<1>5. flow' = [flow EXCEPT ![f] = q]
  BY <1>1, <1>2 DEF FlowTypes
<1>6. FlowTypes' /\ OtherFlows(f) /\ flow'[f] = q
  BY <1>3, <1>5, FlowReplaced
<1> QED  BY <1>1, <1>4, <1>6

CompletedFlow(f, p, e, u, r) ==
    flow' = [flow EXCEPT ![f].pending = p, ![f].established = e, ![f].unknown = u, ![f].retiring = r]
LEMMA FlowCompleted ==
    ASSUME FlowTypes, NEW f \in Calls, NEW p \in Int, NEW e \in BOOLEAN, NEW u \in BOOLEAN, NEW r \in BOOLEAN,
           CompletedFlow(f, p, e, u, r)
    PROVE  /\ FlowTypes' /\ OtherFlows(f)
           /\ flow'[f].pending = p /\ flow'[f].established = e /\ flow'[f].unknown = u /\ flow'[f].retiring = r
           /\ flow'[f].digest = flow[f].digest /\ flow'[f].closed = flow[f].closed
           /\ flow'[f].sub = flow[f].sub /\ flow'[f].owed = flow[f].owed
           /\ flow'[f].detached = flow[f].detached
<1>1. PICK v \in FlowRecords : v = flow[f]
  BY DEF FlowTypes
<1>2. PICK q : q = [v EXCEPT !.pending = p, !.established = e, !.unknown = u, !.retiring = r]
  OBVIOUS
<1>3. q \in FlowRecords
  BY <1>1, <1>2 DEF FlowRecords
<1>4. /\ q.pending = p /\ q.established = e /\ q.unknown = u /\ q.retiring = r
      /\ q.digest = v.digest /\ q.closed = v.closed /\ q.sub = v.sub /\ q.owed = v.owed
      /\ q.detached = v.detached
  BY <1>1, <1>2 DEF FlowRecords
<1>5. flow' = [flow EXCEPT ![f] = q]
  BY <1>1, <1>2 DEF FlowTypes, CompletedFlow
<1>6. FlowTypes' /\ OtherFlows(f) /\ flow'[f] = q
  BY <1>3, <1>5, FlowReplaced
<1> QED  BY <1>1, <1>4, <1>6

LEMMA FlowDetached ==
    ASSUME FlowTypes, NEW f \in Calls, NEW y \in BOOLEAN,
           flow' = [flow EXCEPT ![f].detached = y]
    PROVE  /\ FlowTypes' /\ OtherFlows(f)
           /\ flow'[f].detached = y
           /\ flow'[f].digest = flow[f].digest /\ flow'[f].pending = flow[f].pending
           /\ flow'[f].established = flow[f].established /\ flow'[f].unknown = flow[f].unknown
           /\ flow'[f].retiring = flow[f].retiring /\ flow'[f].closed = flow[f].closed
           /\ flow'[f].sub = flow[f].sub /\ flow'[f].owed = flow[f].owed
<1>1. PICK v \in FlowRecords : v = flow[f]
  BY DEF FlowTypes
<1>2. PICK q : q = [v EXCEPT !.detached = y]
  OBVIOUS
<1>3. q \in FlowRecords
  BY <1>1, <1>2 DEF FlowRecords
<1>4. /\ q.detached = y
      /\ q.digest = v.digest /\ q.pending = v.pending /\ q.established = v.established /\ q.unknown = v.unknown
      /\ q.retiring = v.retiring /\ q.closed = v.closed /\ q.sub = v.sub /\ q.owed = v.owed
  BY <1>1, <1>2 DEF FlowRecords
<1>5. flow' = [flow EXCEPT ![f] = q]
  BY <1>1, <1>2 DEF FlowTypes
<1>6. FlowTypes' /\ OtherFlows(f) /\ flow'[f] = q
  BY <1>3, <1>5, FlowReplaced
<1> QED  BY <1>1, <1>4, <1>6

LEMMA FlowMarked ==
    ASSUME FlowTypes, NEW f \in Calls, NEW r \in BOOLEAN,
           flow' = [flow EXCEPT ![f].retiring = r]
    PROVE  /\ FlowTypes' /\ OtherFlows(f)
           /\ flow'[f].retiring = r
           /\ flow'[f].digest = flow[f].digest /\ flow'[f].pending = flow[f].pending
           /\ flow'[f].established = flow[f].established /\ flow'[f].unknown = flow[f].unknown
           /\ flow'[f].closed = flow[f].closed /\ flow'[f].sub = flow[f].sub
           /\ flow'[f].owed = flow[f].owed /\ flow'[f].detached = flow[f].detached
<1>1. PICK v \in FlowRecords : v = flow[f]
  BY DEF FlowTypes
<1>2. PICK q : q = [v EXCEPT !.retiring = r]
  OBVIOUS
<1>3. q \in FlowRecords
  BY <1>1, <1>2 DEF FlowRecords
<1>4. /\ q.retiring = r
      /\ q.digest = v.digest /\ q.pending = v.pending /\ q.established = v.established /\ q.unknown = v.unknown
      /\ q.closed = v.closed /\ q.sub = v.sub /\ q.owed = v.owed /\ q.detached = v.detached
  BY <1>1, <1>2 DEF FlowRecords
<1>5. flow' = [flow EXCEPT ![f] = q]
  BY <1>1, <1>2 DEF FlowTypes
<1>6. FlowTypes' /\ OtherFlows(f) /\ flow'[f] = q
  BY <1>3, <1>5, FlowReplaced
<1> QED  BY <1>1, <1>4, <1>6

LEMMA FlowClosed ==
    ASSUME FlowTypes, NEW f \in Calls, NEW x \in BOOLEAN,
           flow' = [flow EXCEPT ![f].closed = x]
    PROVE  /\ FlowTypes' /\ OtherFlows(f)
           /\ flow'[f].closed = x
           /\ flow'[f].digest = flow[f].digest /\ flow'[f].pending = flow[f].pending
           /\ flow'[f].established = flow[f].established /\ flow'[f].unknown = flow[f].unknown
           /\ flow'[f].retiring = flow[f].retiring /\ flow'[f].sub = flow[f].sub
           /\ flow'[f].owed = flow[f].owed /\ flow'[f].detached = flow[f].detached
<1>1. PICK v \in FlowRecords : v = flow[f]
  BY DEF FlowTypes
<1>2. PICK q : q = [v EXCEPT !.closed = x]
  OBVIOUS
<1>3. q \in FlowRecords
  BY <1>1, <1>2 DEF FlowRecords
<1>4. /\ q.closed = x
      /\ q.digest = v.digest /\ q.pending = v.pending /\ q.established = v.established /\ q.unknown = v.unknown
      /\ q.retiring = v.retiring /\ q.sub = v.sub /\ q.owed = v.owed /\ q.detached = v.detached
  BY <1>1, <1>2 DEF FlowRecords
<1>5. flow' = [flow EXCEPT ![f] = q]
  BY <1>1, <1>2 DEF FlowTypes
<1>6. FlowTypes' /\ OtherFlows(f) /\ flow'[f] = q
  BY <1>3, <1>5, FlowReplaced
<1> QED  BY <1>1, <1>4, <1>6

LEMMA FlowOwed ==
    ASSUME FlowTypes, NEW f \in Calls, NEW o \in Int,
           flow' = [flow EXCEPT ![f].owed = o]
    PROVE  /\ FlowTypes' /\ OtherFlows(f)
           /\ flow'[f].owed = o
           /\ flow'[f].digest = flow[f].digest /\ flow'[f].pending = flow[f].pending
           /\ flow'[f].established = flow[f].established /\ flow'[f].unknown = flow[f].unknown
           /\ flow'[f].retiring = flow[f].retiring /\ flow'[f].closed = flow[f].closed
           /\ flow'[f].sub = flow[f].sub /\ flow'[f].detached = flow[f].detached
<1>1. PICK v \in FlowRecords : v = flow[f]
  BY DEF FlowTypes
<1>2. PICK q : q = [v EXCEPT !.owed = o]
  OBVIOUS
<1>3. q \in FlowRecords
  BY <1>1, <1>2 DEF FlowRecords
<1>4. /\ q.owed = o
      /\ q.digest = v.digest /\ q.pending = v.pending /\ q.established = v.established /\ q.unknown = v.unknown
      /\ q.retiring = v.retiring /\ q.closed = v.closed /\ q.sub = v.sub /\ q.detached = v.detached
  BY <1>1, <1>2 DEF FlowRecords
<1>5. flow' = [flow EXCEPT ![f] = q]
  BY <1>1, <1>2 DEF FlowTypes
<1>6. FlowTypes' /\ OtherFlows(f) /\ flow'[f] = q
  BY <1>3, <1>5, FlowReplaced
<1> QED  BY <1>1, <1>4, <1>6

-----------------------------------------------------------------------------
(* How a call moves *)

InRegistry(f) == f \in Calls /\ \E k \in Keys : registry[k] = f

\* Where a call goes next on the same flow.
Follows(c, p) ==
    \/ call[c].pc = "start" /\ p = "returned"
    \/ call[c].pc = "start" /\ Op[c] = "detach" /\ p = "calling"
    \/ call[c].pc = "calling" /\ Op[c] = "subscribe" /\ p \in {"bind", "mark"}
    \/ call[c].pc = "calling" /\ Op[c] = "attach" /\ p \in {"bind", "complete"}
    \/ call[c].pc = "calling" /\ Op[c] \notin {"subscribe", "attach"} /\ p \in {"snapshot", "returned"}
    \/ call[c].pc = "bind" /\ Op[c] = "attach" /\ p = "complete"
    \/ call[c].pc = "bind" /\ Op[c] # "attach" /\ p \in {"mark", "returned"}
    \/ call[c].pc = "complete" /\ p \in {"mark", "returned"}
    \/ call[c].pc = "snapshot" /\ p = "scan"
    \/ call[c].pc = "scan" /\ p \in {"scan", "returned"}
    \/ call[c].pc = "mark" /\ p = "close"
    \/ call[c].pc = "close" /\ p = "delete"
    \/ call[c].pc = "delete" /\ p = "returned"
    \/ call[c].pc = "lock" /\ p = "active"
    \/ call[c].pc = "active" /\ p \in {"writing", "returned"}
    \/ call[c].pc = "writing" /\ p = "returned"

\* Which flow a call takes up.
Takes(c, p, f) ==
    \/ call[c].pc = "start" /\ Op[c] = "subscribe" /\ p = "calling" /\ f = c
    \/ call[c].pc = "start" /\ Op[c] = "attach" /\ p = "calling" /\ (f = c \/ InRegistry(f))
    \/ call[c].pc = "start" /\ Op[c] = "credit" /\ p = "lock" /\ InRegistry(f)
    \/ call[c].pc = "scan" /\ p = "mark" /\ f \in call[c].scan

Others(c) == \A d \in Calls : d # c => call'[d] = call[d]
Moves(c) ==
    /\ CallTypes' /\ Others(c)
    /\ \/ Follows(c, call'[c].pc) /\ call'[c].on = call[c].on
       \/ call'[c].on \in Calls /\ Takes(c, call'[c].pc, call'[c].on)
    /\ call'[c].scan \subseteq call[c].scan \cup {f \in Calls : InRegistry(f)}

LEMMA FollowMoves ==
    ASSUME NEW c \in Calls, NEW p, NEW t, NEW s, Becomes(c, p, call[c].on, t, s, call[c].scan), Follows(c, p)
    PROVE  Moves(c)
BY DEF Becomes, Moves, Others

LEMMA TakeMoves ==
    ASSUME NEW c \in Calls, NEW p, NEW f \in Calls, NEW t, NEW s,
           Becomes(c, p, f, t, s, call[c].scan), Takes(c, p, f)
    PROVE  Moves(c)
BY DEF Becomes, Moves, Others

\* The places and answers that the actions use.
LEMMA Names ==
    /\ \A x \in {"start", "calling", "bind", "complete", "snapshot", "scan", "mark", "close", "delete",
                 "lock", "active", "writing", "returned"} : x \in Places
    /\ \A x \in {"ok", "refused", "invalid", "ambiguous"} : x \in Told
BY DEF Places, Told

\* A call that returns.
LEMMA ReturnMoves ==
    ASSUME CallTypes, NEW c \in Calls, NEW t \in Told, Return(c, t), Follows(c, "returned")
    PROVE  Moves(c)
<1>1. Becomes(c, "returned", call[c].on, t, call[c].sub, call[c].scan)
  BY Names, BecomesReturned DEF Return
<1> QED  BY <1>1, FollowMoves

LEMMA GotoMoves ==
    ASSUME CallTypes, NEW c \in Calls, NEW p \in Places, Goto(c, p), Follows(c, p)
    PROVE  Moves(c)
<1>1. Becomes(c, p, call[c].on, call[c].told, call[c].sub, call[c].scan)
  BY BecomesAt DEF Goto
<1> QED  BY <1>1, FollowMoves

LEMMA ConcludeMoves ==
    ASSUME CallTypes, NEW c \in Calls, NEW t \in {"ok", "refused", "invalid", "ambiguous"},
           NEW s \in Subs \cup {None}, Conclude(c, t, s), call[c].pc = "calling"
    PROVE  Moves(c)
<1>1. PICK p : p = Concluded(c, t)
  OBVIOUS
<1>2. Follows(c, p) /\ p \in Places
  BY <1>1 DEF Follows, Concluded, Places
<1>3. Becomes(c, p, call[c].on, t, s, call[c].scan)
  BY <1>1, <1>2, Names, BecomesConcluded DEF Conclude
<1> QED  BY <1>2, <1>3, FollowMoves

LEMMA UsingMoves ==
    ASSUME CallTypes, NEW c \in Calls, NEW p \in Places, NEW f \in Calls, Takes(c, p, f),
           call' = [call EXCEPT ![c].pc = p, ![c].on = f]
    PROVE  Moves(c)
<1>1. Becomes(c, p, f, call[c].told, call[c].sub, call[c].scan)
  BY BecomesUsing
<1> QED  BY <1>1, TakeMoves

\* Every action of a call moves it along Follows or Takes.
LEMMA CallMoves ==
    ASSUME Types, NEW c \in Calls, Proceed(c) \/ Abandon(c)
    PROVE  Moves(c)
<1> USE DEF Types
<1>0. call[c].sub \in Subs \cup {None} /\ call[c].scan \in SUBSET Calls /\ call[c].pc \in Places
  BY DEF CallTypes, CallRecords
<1>a. \A k \in Keys : registry[k] # None => registry[k] \in Calls /\ InRegistry(registry[k])
  BY DEF OtherTypes, InRegistry
<1>b. Key[c] \in Keys
  BY RegistryAssumption
<1>1. CASE ReserveTerminalFlow(c)
  <2>1. CASE Return(c, "refused")
    BY <1>1, <2>1, Names, ReturnMoves DEF ReserveTerminalFlow, Follows
  <2>2. CASE call' = [call EXCEPT ![c].pc = "calling", ![c].on = c]
    BY <1>1, <2>2, Names, UsingMoves DEF ReserveTerminalFlow, Takes
  <2> QED  BY <1>1, <2>1, <2>2 DEF ReserveTerminalFlow
<1>2. CASE ReserveAttachedTerminalFlow(c)
  <2>1. CASE Return(c, "refused")
    BY <1>2, <2>1, Names, ReturnMoves DEF ReserveAttachedTerminalFlow, Follows
  <2>2. CASE call' = [call EXCEPT ![c].pc = "calling", ![c].on = c]
    BY <1>2, <2>2, Names, UsingMoves DEF ReserveAttachedTerminalFlow, Takes
  <2>3. CASE registry[Key[c]] # None /\ call' = [call EXCEPT ![c].pc = "calling", ![c].on = registry[Key[c]]]
    <3>1. Takes(c, "calling", registry[Key[c]]) /\ registry[Key[c]] \in Calls
      BY <1>2, <1>a, <1>b, <2>3 DEF ReserveAttachedTerminalFlow, Takes
    <3> QED  BY <2>3, <3>1, Names, UsingMoves
  <2> QED  BY <1>2, <2>1, <2>2, <2>3 DEF ReserveAttachedTerminalFlow
<1>3. CASE SendDetach(c)
  <2>1. CASE Return(c, "refused")
    BY <1>3, <2>1, Names, ReturnMoves DEF SendDetach, Follows
  <2>2. ASSUME NEW d \in Calls, call' = [call EXCEPT ![c].pc = "calling", ![c].sub = call[d].sub]
        PROVE  Moves(c)
    <3>1. call[d].sub \in Subs \cup {None}
      BY DEF CallTypes, CallRecords
    <3>2. Becomes(c, "calling", call[c].on, call[c].told, call[d].sub, call[c].scan)
      BY <2>2, <3>1, Names, BecomesNaming
    <3>3. Follows(c, "calling")
      BY <1>3 DEF SendDetach, Follows
    <3> QED  BY <3>2, <3>3, FollowMoves
  <2> QED  BY <1>3, <2>1, <2>2 DEF SendDetach
<1>4. CASE Answer(c)
  <2>1. PICK t \in {"ok", "refused", "invalid", "ambiguous"}, s \in Subs \cup {None} : Conclude(c, t, s)
    BY <1>0, <1>4 DEF Answer
  <2> QED  BY <1>4, <2>1, ConcludeMoves DEF Answer
<1>5. CASE GiveUp(c)
  <2>1. PICK t \in {"ok", "refused", "invalid", "ambiguous"} : Conclude(c, t, call[c].sub)
    BY <1>5 DEF GiveUp
  <2> QED  BY <1>0, <1>5, <2>1, ConcludeMoves DEF GiveUp
<1>6. CASE BindSubscription(c)
  <2>1. CASE call' = [call EXCEPT ![c].told = "refused",
                                  ![c].pc = IF Op[c] = "attach" THEN "complete" ELSE "mark"]
    <3>1. PICK p : p = IF Op[c] = "attach" THEN "complete" ELSE "mark"
      OBVIOUS
    <3>2. p \in Places /\ Follows(c, p)
      BY <1>6, <3>1 DEF Places, BindSubscription, Follows
    <3>3. Becomes(c, p, call[c].on, "refused", call[c].sub, call[c].scan)
      BY <2>1, <3>1, <3>2, Names, BecomesRefused
    <3> QED  BY <3>2, <3>3, FollowMoves
  <2>2. CASE Goto(c, IF Op[c] = "attach" THEN "complete" ELSE "returned")
    <3>1. PICK p : p = IF Op[c] = "attach" THEN "complete" ELSE "returned"
      OBVIOUS
    <3>2. p \in Places /\ Follows(c, p)
      BY <1>6, <3>1 DEF Places, BindSubscription, Follows
    <3> QED  BY <2>2, <3>1, <3>2, GotoMoves
  <2> QED  BY <1>6, <2>1, <2>2 DEF BindSubscription
<1>7. CASE CompleteAttached(c)
  <2>1. CASE Goto(c, "mark")
    BY <1>7, <2>1, Names, GotoMoves DEF CompleteAttached, Follows
  <2>2. CASE Goto(c, "returned")
    BY <1>7, <2>2, Names, GotoMoves DEF CompleteAttached, Follows
  <2> QED  BY <1>7, <2>1, <2>2 DEF CompleteAttached
<1>8. CASE Snapshot(c)
  <2>1. PICK n : n = {registry[k] : k \in Keys} \ {None}
    OBVIOUS
  <2>2. n \in SUBSET Calls /\ n \subseteq {f \in Calls : InRegistry(f)}
    BY <1>a, <2>1
  <2>3. Becomes(c, "scan", call[c].on, call[c].told, call[c].sub, n)
    BY <1>8, <2>1, <2>2, Names, BecomesScanning DEF Snapshot
  <2>4. Follows(c, "scan")
    BY <1>8 DEF Snapshot, Follows
  <2> QED  BY <2>2, <2>3, <2>4 DEF Becomes, Moves, Others
<1>9. CASE Scan(c)
  <2>1. ASSUME NEW f \in call[c].scan, call' = [call EXCEPT ![c].pc = "mark", ![c].on = f, ![c].scan = {}]
        PROVE  Moves(c)
    <3>1. f \in Calls /\ {} \in SUBSET Calls
      BY <1>0
    <3>2. Becomes(c, "mark", f, call[c].told, call[c].sub, {})
      BY <2>1, <3>1, Names, BecomesFound
    <3>3. Takes(c, "mark", f)
      BY <1>9 DEF Scan, Takes
    <3> QED  BY <3>1, <3>2, <3>3 DEF Becomes, Moves, Others
  <2>2. ASSUME NEW f \in call[c].scan, call' = [call EXCEPT ![c].scan = @ \ {f}]
        PROVE  Moves(c)
    <3>1. PICK n : n = call[c].scan \ {f}
      OBVIOUS
    <3>2. n \in SUBSET Calls /\ n \subseteq call[c].scan
      BY <1>0, <3>1
    <3>3. call' = [call EXCEPT ![c].scan = n]
      BY <2>2, <3>1 DEF CallTypes
    <3>4. Becomes(c, call[c].pc, call[c].on, call[c].told, call[c].sub, n)
      BY <3>2, <3>3, BecomesPast
    <3>5. Follows(c, call[c].pc)
      BY <1>9 DEF Scan, Follows
    <3> QED  BY <3>2, <3>4, <3>5 DEF Becomes, Moves, Others
  <2>3. CASE Goto(c, "returned")
    BY <1>9, <2>3, Names, GotoMoves DEF Scan, Follows
  <2> QED  BY <1>9, <2>1, <2>2, <2>3 DEF Scan
<1>10. CASE Mark(c)
  BY <1>10, Names, GotoMoves DEF Mark, Follows
<1>11. CASE CloseFlow(c)
  BY <1>11, Names, GotoMoves DEF CloseFlow, Follows
<1>12. CASE DeleteFlow(c)
  BY <1>12, Names, GotoMoves DEF DeleteFlow, Follows
<1>13. CASE FindFlow(c)
  <2>1. CASE Return(c, "refused")
    BY <1>13, <2>1, Names, ReturnMoves DEF FindFlow, Follows
  <2>2. CASE registry[Key[c]] # None /\ call' = [call EXCEPT ![c].pc = "lock", ![c].on = registry[Key[c]]]
    <3>1. Takes(c, "lock", registry[Key[c]]) /\ registry[Key[c]] \in Calls
      BY <1>13, <1>a, <1>b, <2>2 DEF FindFlow, Takes
    <3> QED  BY <2>2, <3>1, Names, UsingMoves
  <2> QED  BY <1>13, <2>1, <2>2 DEF FindFlow, Lookup
<1>14. CASE LockFlow(c)
  BY <1>14, Names, GotoMoves DEF LockFlow, Follows
<1>15. CASE CheckCredit(c)
  <2>1. CASE Goto(c, "writing")
    BY <1>15, <2>1, Names, GotoMoves DEF CheckCredit, Follows
  <2>2. CASE Return(c, "refused")
    BY <1>15, <2>2, Names, ReturnMoves DEF CheckCredit, Follows
  <2> QED  BY <1>15, <2>1, <2>2 DEF CheckCredit
<1>16. CASE Written(c)
  BY <1>16, Names, ReturnMoves DEF Written, Follows
<1>17. CASE WriteAbandoned(c)
  BY <1>17, Names, ReturnMoves DEF WriteAbandoned, Follows
<1>18. CASE Forgo(c)
  BY <1>18, Names, ReturnMoves DEF Forgo, Follows
<1> QED
  BY <1>1, <1>2, <1>3, <1>4, <1>5, <1>6, <1>7, <1>8, <1>9, <1>10, <1>11, <1>12, <1>13, <1>14, <1>15,
     <1>16, <1>17, <1>18 DEF Proceed, Abandon

-----------------------------------------------------------------------------
(* Where a call may be, and on which flow *)

\* The flow that a call uses at each of its steps.
Placed(c) ==
    /\ call[c].pc \in {"calling", "bind", "mark", "close", "delete"} /\ Op[c] = "subscribe" => call[c].on = c
    /\ call[c].pc \in {"calling", "bind"} /\ Op[c] = "attach" => call[c].on \in Calls
    /\ call[c].pc = "calling" => Op[c] \in {"subscribe", "attach", "detach"}
    /\ call[c].pc = "bind" => Op[c] \in {"subscribe", "attach"}
    /\ call[c].pc = "complete" => Op[c] = "attach" /\ call[c].on \in Calls
    /\ call[c].pc \in {"mark", "close", "delete", "lock", "active", "writing"} => call[c].on \in Calls
    /\ call[c].pc \in {"lock", "active", "writing"} => Op[c] = "credit"
    /\ call[c].pc \in {"mark", "close", "delete"} => Op[c] # "credit"
    /\ call[c].pc \in {"snapshot", "scan"} => Op[c] = "detach"
AllPlaced == \A c \in Calls : Placed(c)

LEMMA PlacedStep ==
    ASSUME AllPlaced, NEW c \in Calls, Moves(c)
    PROVE  AllPlaced'
<1>1. ASSUME NEW d \in Calls, d # c PROVE Placed(d)'
  BY <1>1 DEF AllPlaced, Placed, Moves, Others
<1>2. Op[c] \in {"subscribe", "attach", "detach", "credit"}
  BY RegistryAssumption
<1>3. Placed(c)'
  <2>1. CASE Follows(c, call'[c].pc) /\ call'[c].on = call[c].on
    BY <1>2, <2>1 DEF AllPlaced, Placed, Follows
  <2>2. CASE call'[c].on \in Calls /\ Takes(c, call'[c].pc, call'[c].on)
    BY <1>2, <2>2 DEF AllPlaced, Placed, Takes
  <2> QED  BY <2>1, <2>2 DEF Moves
<1> QED  BY <1>1, <1>3 DEF AllPlaced

-----------------------------------------------------------------------------
(* What a call's step does to the flows, the registry and the mutexes *)

SameBooks(f) == /\ flow'[f].digest = flow[f].digest /\ flow'[f].pending = flow[f].pending
                /\ flow'[f].established = flow[f].established /\ flow'[f].unknown = flow[f].unknown
SameWindow(f) == flow'[f].closed = flow[f].closed /\ flow'[f].owed = flow[f].owed
SameEnd(f) == flow'[f].retiring = flow[f].retiring /\ flow'[f].detached = flow[f].detached

\* A retry joins the flow f of its stream.
Shares(c, f) ==
    /\ call[c].pc = "start" /\ Op[c] = "attach" /\ call'[c].pc = "calling" /\ call'[c].on = f
    /\ InRegistry(f) /\ f = registry[Key[c]] /\ ~flow[f].retiring
    /\ OtherFlows(f) /\ SameWindow(f) /\ SameEnd(f)
    /\ flow'[f].digest = flow[f].digest /\ flow'[f].pending = flow[f].pending + 1
    /\ flow'[f].established = flow[f].established /\ flow'[f].unknown = flow[f].unknown
\* An attach creates its flow.
Begins(c) ==
    /\ call[c].pc = "start" /\ Op[c] = "attach" /\ call'[c].pc = "calling" /\ call'[c].on = c
    /\ registry' = [registry EXCEPT ![Key[c]] = c]
    /\ OtherFlows(c) /\ SameWindow(c) /\ SameEnd(c)
    /\ flow'[c].pending = 1
    /\ flow'[c].established = flow[c].established /\ flow'[c].unknown = flow[c].unknown
Binds(c, f) ==
    /\ call[c].pc = "bind" /\ OtherFlows(f) /\ SameBooks(f) /\ SameWindow(f) /\ SameEnd(f)
\* An attach is completed; the last one may find that the flow has to go.
Completes(c, f) ==
    /\ call[c].pc = "complete" /\ OtherFlows(f) /\ SameWindow(f)
    /\ flow'[f].digest = flow[f].digest /\ flow'[f].pending = flow[f].pending - 1
    /\ flow'[f].detached = flow[f].detached
    /\ flow[f].retiring => flow'[f].retiring
    /\ flow'[f].established => flow[f].established \/ call[c].told = "ok"
    /\ flow'[f].unknown => flow[f].unknown \/ call[c].told = "ambiguous"
    /\ call'[c].pc = "mark" => /\ flow'[f].pending = 0 /\ flow'[f].retiring
                               /\ ~flow'[f].established /\ ~flow'[f].unknown
\* A detach finds the flow of its subscription.
Detaches(c, f) ==
    /\ call[c].pc = "scan" /\ call'[c].pc = "mark" /\ f \in call[c].scan /\ call'[c].on = f
    /\ OtherFlows(f) /\ SameBooks(f) /\ SameWindow(f)
    /\ flow'[f].retiring = flow[f].retiring /\ flow'[f].detached
Marks(c, f) ==
    /\ call[c].pc = "mark" /\ OtherFlows(f) /\ SameBooks(f) /\ SameWindow(f)
    /\ flow[f].retiring => flow'[f].retiring
    /\ flow'[f].detached = flow[f].detached
Closes(c, f) ==
    /\ call[c].pc = "close" /\ holder[f] = None
    /\ OtherFlows(f) /\ SameBooks(f) /\ SameEnd(f) /\ flow'[f].closed /\ flow'[f].owed = flow[f].owed
Credits(c, f) ==
    /\ call[c].pc = "writing" /\ OtherFlows(f) /\ SameBooks(f) /\ SameEnd(f)
    /\ flow'[f].closed = flow[f].closed /\ flow'[f].owed = flow[f].owed - 1
\* The flows stay as they are.
Leaves(c) ==
    /\ flow' = flow /\ call[c].pc \notin {"complete", "close"}
    /\ call[c].pc = "start" /\ Op[c] = "attach" => call'[c].pc = "returned"
    /\ call[c].pc = "scan" => call'[c].pc # "mark"

FlowMove(c) ==
    \/ Shares(c, call'[c].on) \/ Begins(c) \/ Detaches(c, call'[c].on) \/ Leaves(c)
    \/ Binds(c, call[c].on) \/ Completes(c, call[c].on) \/ Marks(c, call[c].on)
    \/ Closes(c, call[c].on) \/ Credits(c, call[c].on)

\* A call puts its flow in the registry, takes a closed flow out, or neither.
RegistryMove(c) ==
    \/ registry' = registry
    \/ /\ call[c].pc = "start" /\ call'[c].pc = "calling" /\ call'[c].on = c
       /\ registry[Key[c]] = None /\ Count < MaxSubscriptions
       /\ registry' = [registry EXCEPT ![Key[c]] = c]
    \/ /\ call[c].pc = "delete" /\ Registered(call[c].on)
       /\ registry' = [registry EXCEPT ![Key[call[c].on]] = None]

\* A credit takes the mutex of its flow, gives it back, or neither.
LockMove(c) ==
    \/ /\ call[c].pc = "lock" /\ holder[call[c].on] = None
       /\ holder' = [holder EXCEPT ![call[c].on] = c]
    \/ /\ call[c].pc \in {"active", "writing"} /\ call'[c].pc = "returned"
       /\ holder' = [holder EXCEPT ![call[c].on] = None]
    \/ /\ holder' = holder /\ call[c].pc \notin {"lock", "writing"}
       /\ call[c].pc = "active" =>
              /\ call'[c].pc = "writing" /\ Registered(call[c].on)
              /\ ~flow[call[c].on].closed /\ flow[call[c].on].owed > 0

Effect(c) == /\ Moves(c) /\ FlowTypes' /\ FlowMove(c) /\ RegistryMove(c) /\ LockMove(c)
             /\ reader' = reader /\ workload' = workload /\ chunks' = chunks
             /\ streaming' \subseteq Keys /\ failed' \in BOOLEAN

\* The place and the flow of a call after an update.
LEMMA GotoPlace ==
    ASSUME CallTypes, NEW c \in Calls, NEW p \in Places, Goto(c, p)
    PROVE  call'[c].pc = p
BY BecomesAt DEF Goto, Becomes

LEMMA ReturnPlace ==
    ASSUME CallTypes, NEW c \in Calls, NEW t \in Told, Return(c, t)
    PROVE  call'[c].pc = "returned"
<1>1. Becomes(c, "returned", call[c].on, t, call[c].sub, call[c].scan)
  BY Names, BecomesReturned DEF Return
<1> QED  BY <1>1 DEF Becomes

LEMMA UsingPlace ==
    ASSUME CallTypes, NEW c \in Calls, NEW p \in Places, NEW f \in Calls,
           call' = [call EXCEPT ![c].pc = p, ![c].on = f]
    PROVE  call'[c].pc = p /\ call'[c].on = f
<1>1. Becomes(c, p, f, call[c].told, call[c].sub, call[c].scan)
  BY BecomesUsing
<1> QED  BY <1>1 DEF Becomes

\* Most steps of a call leave the flows, the registry and the mutexes alone.
LEMMA QuietEffect ==
    ASSUME Types, NEW c \in Calls, Moves(c), UNCHANGED <<flow, registry, holder, reader, workload, chunks>>,
           streaming' \subseteq Keys, failed' \in BOOLEAN,
           call[c].pc \notin {"complete", "close", "lock", "active", "writing"},
           call[c].pc = "start" /\ Op[c] = "attach" => call'[c].pc = "returned",
           call[c].pc = "scan" => call'[c].pc # "mark"
    PROVE  Effect(c)
BY DEF Effect, FlowMove, Leaves, RegistryMove, LockMove, Types, FlowTypes

LEMMA CallEffect ==
    ASSUME Types, AllPlaced, NEW c \in Calls, Proceed(c) \/ Abandon(c)
    PROVE  Effect(c)
<1> USE DEF Types
<1>m. Moves(c)
  BY CallMoves
<1>s. streaming \subseteq Keys /\ failed \in BOOLEAN /\ Key[c] \in Keys
  BY RegistryAssumption DEF OtherTypes
<1>p. Placed(c)
  BY DEF AllPlaced
<1>1. CASE ReserveTerminalFlow(c)
  <2>1. CASE Return(c, "refused") /\ UNCHANGED <<registry, flow>>
    BY <1>1, <1>m, <1>s, <2>1, QuietEffect DEF ReserveTerminalFlow, other
  <2>2. CASE /\ registry[Key[c]] = None /\ Count < MaxSubscriptions
             /\ registry' = [registry EXCEPT ![Key[c]] = c]
             /\ call' = [call EXCEPT ![c].pc = "calling", ![c].on = c]
             /\ UNCHANGED flow
    <3>1. call'[c].pc = "calling" /\ call'[c].on = c
      BY <2>2, Names, UsingPlace
    <3> QED
      BY <1>1, <1>m, <1>s, <2>2, <3>1
      DEF ReserveTerminalFlow, other, Effect, FlowMove, Leaves, RegistryMove, LockMove, FlowTypes
  <2> QED  BY <1>1, <2>1, <2>2 DEF ReserveTerminalFlow
<1>2. CASE ReserveAttachedTerminalFlow(c)
  <2>0. /\ call[c].pc = "start" /\ Op[c] = "attach"
        /\ UNCHANGED <<holder, reader, streaming, failed, workload, chunks>>
    BY <1>2 DEF ReserveAttachedTerminalFlow, other
  <2>1. CASE Return(c, "refused") /\ UNCHANGED <<registry, flow>>
    BY <1>m, <1>s, <2>0, <2>1, Names, QuietEffect, ReturnPlace
  <2>2. ASSUME NEW f, f = registry[Key[c]], f # None, ~flow[f].retiring,
               flow' = [flow EXCEPT ![f].pending = @ + 1],
               call' = [call EXCEPT ![c].pc = "calling", ![c].on = f], UNCHANGED registry
        PROVE  Effect(c)
    <3>1. f \in Calls /\ InRegistry(f)
      BY <1>s, <2>2 DEF OtherTypes, InRegistry
    <3>2. call'[c].pc = "calling" /\ call'[c].on = f
      BY <2>2, <3>1, Names, UsingPlace
    <3>3. PICK p \in Int : p = flow[f].pending + 1
      BY SMTT(30), <3>1 DEF FlowTypes, FlowRecords
    <3>4. flow' = [flow EXCEPT ![f].pending = p]
      BY <2>2, <3>1, <3>3 DEF FlowTypes
    <3>5. /\ FlowTypes' /\ OtherFlows(f) /\ flow'[f].pending = p /\ flow'[f].digest = flow[f].digest
          /\ flow'[f].established = flow[f].established /\ flow'[f].unknown = flow[f].unknown
          /\ SameWindow(f) /\ SameEnd(f)
      BY <3>1, <3>4, FlowShared DEF SameWindow, SameEnd
    <3>6. Shares(c, f)
      BY <2>0, <2>2, <3>1, <3>2, <3>3, <3>5 DEF Shares
    <3> QED  BY <1>m, <1>s, <2>0, <2>2, <3>2, <3>5, <3>6 DEF Effect, FlowMove, RegistryMove, LockMove
  <2>3. CASE /\ registry[Key[c]] = None /\ Count < MaxSubscriptions
             /\ registry' = [registry EXCEPT ![Key[c]] = c]
             /\ flow' = [flow EXCEPT ![c].digest = Digest[c], ![c].pending = 1]
             /\ call' = [call EXCEPT ![c].pc = "calling", ![c].on = c]
    <3>1. call'[c].pc = "calling" /\ call'[c].on = c
      BY <2>3, Names, UsingPlace
    <3>2. PICK d \in {Digest[e] : e \in Calls} \cup {None}, p \in Int : d = Digest[c] /\ p = 1
      BY SMTT(30)
    <3>3. flow' = [flow EXCEPT ![c].digest = d, ![c].pending = p]
      BY <2>3, <3>2
    <3>4. /\ FlowTypes' /\ OtherFlows(c) /\ flow'[c].pending = p
          /\ flow'[c].established = flow[c].established /\ flow'[c].unknown = flow[c].unknown
          /\ SameWindow(c) /\ SameEnd(c)
      BY <3>3, FlowFresh DEF SameWindow, SameEnd
    <3>5. Begins(c)
      BY <2>0, <2>3, <3>1, <3>2, <3>4 DEF Begins
    <3> QED  BY <1>m, <1>s, <2>0, <2>3, <3>1, <3>4, <3>5 DEF Effect, FlowMove, RegistryMove, LockMove
  <2> QED  BY <1>2, <2>1, <2>2, <2>3 DEF ReserveAttachedTerminalFlow
<1>3. CASE SendDetach(c)
  BY <1>3, <1>m, <1>s, QuietEffect DEF SendDetach, other
<1>4. CASE Answer(c)
  <2>1. streaming' \subseteq Keys /\ failed' \in BOOLEAN
    BY <1>4, <1>s DEF Answer, Conclude
  <2> QED  BY <1>4, <1>m, <2>1, QuietEffect DEF Answer, other
<1>5. CASE GiveUp(c)
  <2>1. failed' \in BOOLEAN
    BY <1>5, <1>s DEF GiveUp, Conclude
  <2> QED  BY <1>5, <1>m, <1>s, <2>1, QuietEffect DEF GiveUp, other
<1>6. CASE BindSubscription(c)
  <2>1. failed' \in BOOLEAN /\ call[c].pc = "bind" /\ UNCHANGED <<registry, holder, reader, streaming, workload, chunks>>
    BY <1>6, <1>s DEF BindSubscription, other
  <2>2. CASE UNCHANGED flow
    BY <1>m, <1>s, <2>1, <2>2, QuietEffect
  <2>3. CASE flow' = [flow EXCEPT ![call[c].on].sub = call[c].sub]
    <3>1. PICK f \in Calls, s \in Subs \cup {None} : f = call[c].on /\ s = call[c].sub
      BY <1>p, <2>1 DEF Placed, CallTypes, CallRecords
    <3>2. FlowTypes' /\ OtherFlows(f) /\ SameBooks(f) /\ SameWindow(f) /\ SameEnd(f)
      BY <2>3, <3>1, FlowBound DEF SameBooks, SameWindow, SameEnd
    <3> QED  BY <1>m, <1>s, <2>1, <3>1, <3>2 DEF Effect, FlowMove, Binds, RegistryMove, LockMove
  <2> QED  BY <1>6, <2>2, <2>3 DEF BindSubscription

<1>7. CASE CompleteAttached(c)
  <2>1. PICK f \in Calls : f = call[c].on
    BY <1>7, <1>p DEF CompleteAttached, Placed
  <2>2. PICK t : t = call[c].told
    OBVIOUS
  <2>3. /\ flow[f].pending \in Int /\ flow[f].established \in BOOLEAN /\ flow[f].unknown \in BOOLEAN
        /\ flow[f].retiring \in BOOLEAN
    BY DEF FlowTypes, FlowRecords
  <2>4. PICK x \in BOOLEAN : x = /\ t \in {"refused", "invalid"} /\ flow[f].pending - 1 = 0
                                 /\ ~flow[f].established /\ ~flow[f].unknown /\ Registered(f)
    OBVIOUS
  <2>5. PICK p \in Int, e \in BOOLEAN, u \in BOOLEAN, r \in BOOLEAN :
            /\ p = flow[f].pending - 1 /\ e = (flow[f].established \/ t = "ok")
            /\ u = (flow[f].unknown \/ t = "ambiguous") /\ r = (flow[f].retiring \/ x)
    <3>1. /\ flow[f].pending - 1 \in Int /\ (flow[f].established \/ t = "ok") \in BOOLEAN
          /\ (flow[f].unknown \/ t = "ambiguous") \in BOOLEAN /\ (flow[f].retiring \/ x) \in BOOLEAN
      BY SMTT(30), <2>3
    <3> QED  BY <3>1
  <2>6. /\ flow' = [flow EXCEPT ![f].pending = p, ![f].established = @ \/ t = "ok",
                                ![f].unknown = @ \/ t = "ambiguous", ![f].retiring = @ \/ x]
        /\ Goto(c, IF x THEN "mark" ELSE "returned")
        /\ call[c].pc = "complete" /\ UNCHANGED <<registry, holder, reader, streaming, failed, workload, chunks>>
    BY <1>7, <2>1, <2>2, <2>4, <2>5 DEF CompleteAttached, other
  <2>7. CompletedFlow(f, p, e, u, r)
    BY <2>5, <2>6 DEF FlowTypes, CompletedFlow
  <2>8. /\ FlowTypes' /\ OtherFlows(f) /\ SameWindow(f)
        /\ flow'[f].pending = p /\ flow'[f].established = e /\ flow'[f].unknown = u /\ flow'[f].retiring = r
        /\ flow'[f].digest = flow[f].digest /\ flow'[f].detached = flow[f].detached
    <3>1. /\ FlowTypes' /\ OtherFlows(f)
          /\ flow'[f].pending = p /\ flow'[f].established = e /\ flow'[f].unknown = u /\ flow'[f].retiring = r
          /\ flow'[f].digest = flow[f].digest /\ flow'[f].closed = flow[f].closed
          /\ flow'[f].owed = flow[f].owed /\ flow'[f].detached = flow[f].detached
      <4>1. FlowTypes
        BY DEF Types
      <4> QED  BY SMTT(30), <2>7, <4>1, FlowCompleted
    <3> QED  BY <3>1 DEF SameWindow
  <2>9. call'[c].pc = "mark" => x
    <3>1. CASE x
      BY <3>1
    <3>2. CASE ~x
      BY <2>6, <3>2, Names, GotoPlace
    <3> QED  BY <3>1, <3>2
  <2>10. x => p = 0 /\ ~e /\ ~u /\ r
    BY <2>4, <2>5
  <2>11. Completes(c, f)
    BY <2>2, <2>5, <2>6, <2>8, <2>9, <2>10 DEF Completes
  <2> QED  BY <1>m, <1>s, <2>1, <2>6, <2>8, <2>11 DEF Effect, FlowMove, RegistryMove, LockMove
<1>8. CASE Snapshot(c)
  BY <1>8, <1>m, <1>s, QuietEffect DEF Snapshot, other
<1>9. CASE Scan(c)
  <2>0. call[c].pc = "scan" /\ UNCHANGED <<registry, holder, reader, streaming, failed, workload, chunks>>
    BY <1>9 DEF Scan, other
  <2>1. ASSUME NEW f \in call[c].scan, flow' = [flow EXCEPT ![f].detached = TRUE],
               call' = [call EXCEPT ![c].pc = "mark", ![c].on = f, ![c].scan = {}]
        PROVE  Effect(c)
    <3>1. f \in Calls /\ {} \in SUBSET Calls
      BY DEF CallTypes, CallRecords
    <3>2. Becomes(c, "mark", f, call[c].told, call[c].sub, {})
      BY <2>1, <3>1, Names, BecomesFound
    <3>3. PICK y \in BOOLEAN : y = TRUE
      OBVIOUS
    <3>4. FlowTypes' /\ OtherFlows(f) /\ SameBooks(f) /\ SameWindow(f)
          /\ flow'[f].retiring = flow[f].retiring /\ flow'[f].detached = y
      BY <2>1, <3>1, <3>3, FlowDetached DEF SameBooks, SameWindow
    <3>5. Detaches(c, f)
      BY <2>0, <2>1, <3>2, <3>3, <3>4 DEF Detaches, Becomes
    <3> QED  BY <1>m, <1>s, <2>0, <3>2, <3>4, <3>5 DEF Effect, FlowMove, RegistryMove, LockMove, Becomes
  <2>2. ASSUME NEW f \in call[c].scan, call' = [call EXCEPT ![c].scan = @ \ {f}], UNCHANGED flow
        PROVE  Effect(c)
    <3>1. call'[c].pc = "scan"
      BY <2>0, <2>2 DEF CallTypes, CallRecords
    <3> QED  BY <1>m, <1>s, <2>0, <2>2, <3>1, QuietEffect
  <2>3. CASE Goto(c, "returned") /\ UNCHANGED flow
    <3>1. call'[c].pc = "returned"
      BY <2>3, Names, GotoPlace
    <3> QED  BY <1>m, <1>s, <2>0, <2>3, <3>1, QuietEffect
  <2> QED  BY <1>9, <2>1, <2>2, <2>3 DEF Scan
<1>10. CASE Mark(c)
  <2>1. PICK f \in Calls : f = call[c].on
    BY <1>10, <1>p DEF Mark, Placed
  <2>2. PICK r \in BOOLEAN : r = (flow[f].retiring \/ Registered(f))
    BY DEF FlowTypes, FlowRecords
  <2>3. flow' = [flow EXCEPT ![f].retiring = r]
    BY <1>10, <2>1, <2>2 DEF Mark, FlowTypes
  <2>4. FlowTypes' /\ OtherFlows(f) /\ SameBooks(f) /\ SameWindow(f)
        /\ flow'[f].retiring = r /\ flow'[f].detached = flow[f].detached
    BY <2>3, FlowMarked DEF SameBooks, SameWindow
  <2>5. Marks(c, f)
    BY <1>10, <2>2, <2>4 DEF Marks, Mark
  <2> QED  BY <1>10, <1>m, <1>s, <2>1, <2>4, <2>5 DEF Mark, other, Effect, FlowMove, RegistryMove, LockMove
<1>11. CASE CloseFlow(c)
  <2>1. PICK f \in Calls, x \in BOOLEAN : f = call[c].on /\ x = TRUE
    BY <1>11, <1>p DEF CloseFlow, Placed
  <2>2. FlowTypes' /\ OtherFlows(f) /\ SameBooks(f) /\ SameEnd(f)
        /\ flow'[f].closed = x /\ flow'[f].owed = flow[f].owed
    BY <1>11, <2>1, FlowClosed DEF CloseFlow, SameBooks, SameEnd
  <2>3. Closes(c, f)
    BY <1>11, <2>1, <2>2 DEF Closes, CloseFlow
  <2> QED  BY <1>11, <1>m, <1>s, <2>1, <2>2, <2>3 DEF CloseFlow, other, Effect, FlowMove, RegistryMove, LockMove
<1>12. CASE DeleteFlow(c)
  BY <1>12, <1>m, <1>s DEF DeleteFlow, other, Effect, FlowMove, Leaves, RegistryMove, LockMove, FlowTypes
<1>13. CASE FindFlow(c)
  <2>1. call[c].pc = "start" /\ Op[c] # "attach" /\ UNCHANGED <<registry, flow, holder, reader, streaming, failed, workload, chunks>>
    BY <1>13 DEF FindFlow, other
  <2> QED  BY <1>m, <1>s, <2>1, QuietEffect
<1>14. CASE LockFlow(c)
  BY <1>14, <1>m, <1>s DEF LockFlow, other, Effect, FlowMove, Leaves, RegistryMove, LockMove, FlowTypes
<1>15. CASE CheckCredit(c)
  <2>0. call[c].pc = "active" /\ UNCHANGED <<registry, flow, reader, streaming, failed, workload, chunks>>
    BY <1>15 DEF CheckCredit, other
  <2>1. CASE ~flow[call[c].on].closed /\ Active(call[c].on) /\ flow[call[c].on].owed > 0
             /\ Goto(c, "writing") /\ UNCHANGED holder
    <3>1. call'[c].pc = "writing"
      BY <2>1, Names, GotoPlace
    <3> QED  BY <1>m, <1>s, <2>0, <2>1, <3>1
             DEF Active, Effect, FlowMove, Leaves, RegistryMove, LockMove, FlowTypes
  <2>2. CASE Return(c, "refused") /\ holder' = [holder EXCEPT ![call[c].on] = None]
    <3>1. call'[c].pc = "returned"
      BY <2>2, Names, ReturnPlace
    <3> QED  BY <1>m, <1>s, <2>0, <2>2, <3>1 DEF Effect, FlowMove, Leaves, RegistryMove, LockMove, FlowTypes
  <2> QED  BY <1>15, <2>1, <2>2 DEF CheckCredit
<1>16. CASE Written(c)
  <2>1. PICK f \in Calls : f = call[c].on
    BY <1>16, <1>p DEF Written, Placed
  <2>2. PICK o \in Int : o = flow[f].owed - 1
    BY SMTT(30) DEF FlowTypes, FlowRecords
  <2>3. flow' = [flow EXCEPT ![f].owed = o]
    BY <1>16, <2>1, <2>2 DEF Written, FlowTypes
  <2>4. FlowTypes' /\ OtherFlows(f) /\ SameBooks(f) /\ SameEnd(f)
        /\ flow'[f].closed = flow[f].closed /\ flow'[f].owed = o
    BY <2>3, FlowOwed DEF SameBooks, SameEnd
  <2>5. Credits(c, f)
    BY <1>16, <2>2, <2>4 DEF Credits, Written
  <2>6. call'[c].pc = "returned"
    BY <1>16, Names, ReturnPlace DEF Written
  <2> QED  BY <1>16, <1>m, <1>s, <2>1, <2>4, <2>5, <2>6
           DEF Written, other, Effect, FlowMove, RegistryMove, LockMove
<1>17. CASE WriteAbandoned(c)
  <2>1. call'[c].pc = "returned"
    BY <1>17, Names, ReturnPlace DEF WriteAbandoned
  <2>2. failed' \in BOOLEAN
    BY <1>17, <1>s DEF WriteAbandoned
  <2> QED  BY <1>17, <1>m, <1>s, <2>1, <2>2
           DEF WriteAbandoned, other, Effect, FlowMove, Leaves, RegistryMove, LockMove, FlowTypes
<1>18. CASE Forgo(c)
  BY <1>18, <1>m, <1>s, QuietEffect DEF Forgo, other
<1> QED
  BY <1>1, <1>2, <1>3, <1>4, <1>5, <1>6, <1>7, <1>8, <1>9, <1>10, <1>11, <1>12, <1>13, <1>14, <1>15,
     <1>16, <1>17, <1>18 DEF Proceed, Abandon

-----------------------------------------------------------------------------
(* The inductive invariant *)

\* A flow is in the registry under its stream, and only calls that have begun are in
\* the registry, in use or scanned; the flow of a call that has not begun is blank.
Created ==
    /\ \A k \in Keys : registry[k] # None => Key[registry[k]] = k /\ call[registry[k]].pc # "start"
    /\ \A c \in Calls : call[c].on # None => call[call[c].on].pc # "start"
    /\ \A c \in Calls : \A f \in call[c].scan : call[f].pc # "start"
    /\ reader.on # None => call[reader.on].pc # "start"
    /\ \A c \in Calls : call[c].pc = "start" => flow[c] = NoFlow /\ call[c].on = None

\* A flow's mutex is held exactly by who is between its lock and its unlock.
Mutex ==
    /\ \A c \in Calls : call[c].pc \in {"active", "writing"} => holder[call[c].on] = c
    /\ \A f \in Calls : holder[f] \in Calls =>
            call[holder[f]].on = f /\ call[holder[f]].pc \in {"active", "writing"}
    /\ reader.pc \in {"active", "apply"} => reader.on \in Calls /\ holder[reader.on] = "reader"
    /\ reader.pc = "lock" => reader.on \in Calls
    /\ \A f \in Calls : holder[f] = "reader" => reader.on = f /\ reader.pc \in {"active", "apply"}

\* What was checked under the mutex still holds at the write; only a closed flow is deleted.
Current ==
    /\ \A c \in Calls : call[c].pc = "writing" =>
            Registered(call[c].on) /\ ~flow[call[c].on].closed /\ flow[call[c].on].owed > 0
    /\ reader.pc = "apply" => Registered(reader.on) /\ ~flow[reader.on].closed
    /\ \A c \in Calls : call[c].pc = "delete" => flow[call[c].on].closed

\* A chunk is owed only when it was sent, and not while the reader still has it.
Owed == \A f \in Calls : /\ flow[f].owed >= 0
                         /\ flow[f].owed + (IF reader.pc = "idle" THEN 0 ELSE 1) <= chunks

\* The flow of an attach leaves the registry detached, or with every attach that
\* shared it refused.
Removed(f) == flow[f].pending = 0 /\ ~flow[f].established /\ ~flow[f].unknown /\ flow[f].retiring
Released(f) == Op[f] = "attach" => flow[f].detached \/ Removed(f)
Remembered ==
    /\ \A c \in Calls : call[c].pc \in {"mark", "close", "delete"} => Released(call[c].on)
    /\ \A f \in Calls : flow[f].digest # None /\ ~Registered(f) => Released(f)

\* The attaches that share a flow and were not completed.
Sharing(f) == {c \in Calls : /\ Op[c] = "attach" /\ call[c].on = f
                             /\ call[c].pc \in {"calling", "bind", "complete"}}
Counted == \A f \in Calls : flow[f].pending = Cardinality(Sharing(f))

Taken == {k \in Keys : registry[k] # None}
Limited == IsFiniteSet(Taken) /\ Cardinality(Taken) <= MaxSubscriptions

IInv == /\ Types /\ AllPlaced /\ Created /\ Mutex /\ Current /\ Owed /\ Counted /\ Limited /\ Remembered

-----------------------------------------------------------------------------
(* Steps of calls *)

LEMMA Begun ==
    ASSUME NEW c \in Calls, Moves(c)
    PROVE  /\ call[c].pc # "start" => call'[c].pc # "start"
           /\ \A d \in Calls : call[d].pc # "start" => call'[d].pc # "start"
           /\ call'[c].pc # "start"
BY DEF Moves, Others, Follows, Takes

LEMMA TypesStep ==
    ASSUME Types, AllPlaced, NEW c \in Calls, Effect(c)
    PROVE  Types'
<1>1. CallTypes' /\ FlowTypes'
  BY DEF Effect, Moves
<1>2. call[c].pc \in {"lock", "active", "writing"} => call[c].on \in Calls
  BY DEF AllPlaced, Placed
<1>3. LockTypes'
  BY <1>2 DEF Effect, LockMove, Types, LockTypes
<1>4. registry' \in [Keys -> Calls \cup {None}]
  BY DEF Effect, RegistryMove, Types, OtherTypes
<1>5. OtherTypes'
  BY <1>4 DEF Effect, Types, OtherTypes
<1> QED  BY <1>1, <1>3, <1>5 DEF Types

\* What the registry holds after a step.
LEMMA RegistryAfter ==
    ASSUME Types, NEW c \in Calls, Effect(c), NEW k \in Keys, registry'[k] # registry[k]
    PROVE  \/ registry[k] = None /\ registry'[k] = c /\ k = Key[c]
           \/ call[c].pc = "delete" /\ registry'[k] = None /\ registry[k] = call[c].on /\ k = Key[call[c].on]
BY DEF Effect, RegistryMove, Types, OtherTypes, Registered

\* A step changes only flows of calls that have begun.
LEMMA FlowAfter ==
    ASSUME Types, AllPlaced, Created, NEW c \in Calls, Effect(c), NEW f \in Calls, flow'[f] # flow[f]
    PROVE  call'[f].pc # "start"
<1>1. Moves(c) /\ call'[c].pc # "start" /\ \A d \in Calls : call[d].pc # "start" => call'[d].pc # "start"
  BY Begun DEF Effect
<1>2. call[c].on \in Calls => call[call[c].on].pc # "start"
  BY RegistryAssumption DEF Created
<1>3. call[c].pc \in {"bind", "complete", "mark", "close", "writing"} => call[c].on \in Calls
  BY DEF AllPlaced, Placed
<1>4. CASE Shares(c, call'[c].on)
  BY SMTT(30), <1>1, <1>4, RegistryAssumption DEF Shares, OtherFlows, Created, InRegistry
<1>5. CASE Begins(c)
  BY <1>1, <1>5 DEF Begins, OtherFlows
<1>6. CASE Detaches(c, call'[c].on)
  BY SMTT(30), <1>1, <1>6 DEF Detaches, OtherFlows, Created
<1>7. CASE Leaves(c)
  BY <1>7 DEF Leaves
<1>8. CASE \/ Binds(c, call[c].on) \/ Completes(c, call[c].on) \/ Marks(c, call[c].on)
           \/ Closes(c, call[c].on) \/ Credits(c, call[c].on)
  BY <1>1, <1>2, <1>3, <1>8 DEF Binds, Completes, Marks, Closes, Credits, OtherFlows
<1> QED  BY <1>4, <1>5, <1>6, <1>7, <1>8 DEF Effect, FlowMove

LEMMA CreatedStep ==
    ASSUME Types, AllPlaced, Created, NEW c \in Calls, Effect(c)
    PROVE  Created'
<1>1. Moves(c) /\ call'[c].pc # "start" /\ \A d \in Calls : call[d].pc # "start" => call'[d].pc # "start"
  BY Begun DEF Effect
<1>2. ASSUME NEW k \in Keys, registry'[k] # None
      PROVE  Key[registry'[k]] = k /\ call'[registry'[k]].pc # "start"
  <2>1. CASE registry'[k] = registry[k]
    BY <1>1, <1>2, <2>1 DEF Created, Types, OtherTypes
  <2>2. CASE registry'[k] # registry[k]
    BY <1>1, <1>2, <2>2, RegistryAfter
  <2> QED  BY <2>1, <2>2
<1>3. ASSUME NEW f \in Calls, InRegistry(f) PROVE call[f].pc # "start"
  BY <1>3, RegistryAssumption DEF InRegistry, Created
<1>4. ASSUME NEW d \in Calls, call'[d].on # None PROVE call'[call'[d].on].pc # "start"
  <2>0. call[d].on # None => call[d].on \in Calls
    BY DEF Types, CallTypes, CallRecords
  <2>1. CASE call'[d].on = call[d].on
    BY <1>1, <1>4, <2>0, <2>1 DEF Created
  <2>2. CASE d = c /\ call'[c].on \in Calls /\ Takes(c, call'[c].pc, call'[c].on)
    BY <1>1, <1>3, <2>2 DEF Takes, Created
  <2> QED  BY <1>1, <2>1, <2>2 DEF Moves, Others
<1>5. ASSUME NEW d \in Calls, NEW f \in call'[d].scan PROVE call'[f].pc # "start"
  <2>1. f \in call[d].scan \/ (f \in Calls /\ InRegistry(f))
    BY <1>1, <1>5 DEF Moves, Others
  <2>2. f \in Calls
    BY <2>1 DEF Types, CallTypes, CallRecords
  <2> QED  BY <1>1, <1>3, <2>1, <2>2 DEF Created
<1>6. reader'.on # None => call'[reader'.on].pc # "start"
  <2>1. reader.on # None => reader.on \in Calls
    BY DEF Types, LockTypes
  <2> QED  BY <1>1, <2>1 DEF Effect, Created
<1>7. ASSUME NEW d \in Calls, call'[d].pc = "start" PROVE flow'[d] = NoFlow /\ call'[d].on = None
  <2>1. d # c /\ call'[d] = call[d]
    BY <1>1, <1>7 DEF Moves, Others
  <2>2. flow'[d] = flow[d]
    BY <1>7, FlowAfter
  <2> QED  BY <1>7, <2>1, <2>2 DEF Created
<1> QED  BY <1>2, <1>4, <1>5, <1>6, <1>7 DEF Created

\* Where a call that deals with a mutex comes from.
LEMMA CreditMoves ==
    ASSUME NEW c \in Calls, Moves(c)
    PROVE  /\ call'[c].pc = "active" => call[c].pc = "lock"
           /\ call'[c].pc = "writing" => call[c].pc = "active"
           /\ call'[c].pc = "delete" => call[c].pc = "close"
           /\ call[c].pc \in {"lock", "active", "writing", "close", "delete", "complete"} =>
                  call'[c].on = call[c].on
           /\ call[c].pc = "lock" => call'[c].pc = "active"
BY DEF Moves, Follows, Takes

LEMMA MutexStep ==
    ASSUME Types, AllPlaced, Mutex, NEW c \in Calls, Effect(c)
    PROVE  Mutex'
<1>1. /\ Moves(c) /\ Others(c) /\ LockMove(c) /\ reader' = reader
      /\ call'[c].pc = "active" => call[c].pc = "lock"
      /\ call'[c].pc = "writing" => call[c].pc = "active"
      /\ call[c].pc \in {"lock", "active", "writing"} => call'[c].on = call[c].on /\ call[c].on \in Calls
      /\ call[c].pc = "lock" => call'[c].pc = "active"
  BY CreditMoves DEF Effect, Moves, AllPlaced, Placed
<1>2. "reader" \notin Calls /\ None \notin Calls /\ None # "reader"
  BY RegistryAssumption
<1>3. holder \in [Calls -> Calls \cup {None, "reader"}]
  BY DEF Types, LockTypes
<1>4. CASE call[c].pc = "lock" /\ holder[call[c].on] = None /\ holder' = [holder EXCEPT ![call[c].on] = c]
  <2>1. PICK g \in Calls : g = call[c].on
    BY <1>1, <1>4
  <2>2. holder'[g] = c /\ \A f \in Calls : f # g => holder'[f] = holder[f]
    BY <1>3, <1>4, <2>1
  <2>3. call'[c].pc = "active" /\ call'[c].on = g /\ holder[g] = None
    BY <1>1, <1>4, <2>1
  <2>4. \A d \in Calls : call'[d].pc \in {"active", "writing"} => holder'[call'[d].on] = d
    BY SMTT(30), <1>1, <1>2, <2>2, <2>3 DEF Mutex, Others, AllPlaced, Placed
  <2>5. \A f \in Calls : holder'[f] \in Calls =>
            call'[holder'[f]].on = f /\ call'[holder'[f]].pc \in {"active", "writing"}
    BY SMTT(30), <1>1, <1>4, <2>2, <2>3 DEF Mutex, Others
  <2>6. /\ reader'.pc \in {"active", "apply"} => reader'.on \in Calls /\ holder'[reader'.on] = "reader"
        /\ reader'.pc = "lock" => reader'.on \in Calls
        /\ \A f \in Calls : holder'[f] = "reader" => reader'.on = f /\ reader'.pc \in {"active", "apply"}
    BY SMTT(30), <1>1, <1>2, <2>2, <2>3 DEF Mutex
  <2> QED  BY <2>4, <2>5, <2>6 DEF Mutex
<1>5. CASE /\ call[c].pc \in {"active", "writing"} /\ call'[c].pc = "returned"
           /\ holder' = [holder EXCEPT ![call[c].on] = None]
  <2>1. PICK g \in Calls : g = call[c].on
    BY <1>1, <1>5
  <2>2. holder'[g] = None /\ \A f \in Calls : f # g => holder'[f] = holder[f]
    BY <1>3, <1>5, <2>1
  <2>3. holder[g] = c
    BY <1>5, <2>1 DEF Mutex
  <2>4. \A d \in Calls : call'[d].pc \in {"active", "writing"} => holder'[call'[d].on] = d
    BY SMTT(30), <1>1, <1>5, <2>2, <2>3 DEF Mutex, Others, AllPlaced, Placed
  <2>5. \A f \in Calls : holder'[f] \in Calls =>
            call'[holder'[f]].on = f /\ call'[holder'[f]].pc \in {"active", "writing"}
    <3> SUFFICES ASSUME NEW f \in Calls, holder'[f] \in Calls
                 PROVE  call'[holder'[f]].on = f /\ call'[holder'[f]].pc \in {"active", "writing"}
      OBVIOUS
    <3>1. f # g /\ holder'[f] = holder[f]
      BY <1>2, <2>2
    <3>2. call[holder[f]].on = f /\ holder[f] # c
      BY <2>1, <3>1 DEF Mutex
    <3> QED  BY SMTT(30), <1>1, <3>1, <3>2 DEF Mutex, Others
  <2>6. /\ reader'.pc \in {"active", "apply"} => reader'.on \in Calls /\ holder'[reader'.on] = "reader"
        /\ reader'.pc = "lock" => reader'.on \in Calls
        /\ \A f \in Calls : holder'[f] = "reader" => reader'.on = f /\ reader'.pc \in {"active", "apply"}
    BY SMTT(30), <1>1, <1>2, <2>2, <2>3 DEF Mutex
  <2> QED  BY <2>4, <2>5, <2>6 DEF Mutex
<1>6. CASE /\ holder' = holder /\ call[c].pc \notin {"lock", "writing"}
           /\ call[c].pc = "active" => call'[c].pc = "writing"
  <2>4. \A d \in Calls : call'[d].pc \in {"active", "writing"} => holder'[call'[d].on] = d
    BY SMTT(30), <1>1, <1>6 DEF Mutex, Others
  <2>5. \A f \in Calls : holder'[f] \in Calls =>
            call'[holder'[f]].on = f /\ call'[holder'[f]].pc \in {"active", "writing"}
    BY SMTT(30), <1>1, <1>6 DEF Mutex, Others
  <2>6. /\ reader'.pc \in {"active", "apply"} => reader'.on \in Calls /\ holder'[reader'.on] = "reader"
        /\ reader'.pc = "lock" => reader'.on \in Calls
        /\ \A f \in Calls : holder'[f] = "reader" => reader'.on = f /\ reader'.pc \in {"active", "apply"}
    BY <1>1, <1>6 DEF Mutex
  <2> QED  BY <2>4, <2>5, <2>6 DEF Mutex
<1> QED  BY <1>1, <1>4, <1>5, <1>6 DEF LockMove

\* A step closes only a flow whose mutex is free, and credits only the flow it locked.
LEMMA WindowAfter ==
    ASSUME Types, NEW c \in Calls, Effect(c), NEW f \in Calls
    PROVE  /\ flow[f].closed => flow'[f].closed
           /\ flow'[f].closed => flow[f].closed \/ (call[c].pc = "close" /\ f = call[c].on /\ holder[f] = None)
           /\ \/ flow'[f].owed = flow[f].owed
              \/ call[c].pc = "writing" /\ f = call[c].on /\ flow'[f].owed = flow[f].owed - 1
           /\ call[c].pc = "close" /\ f = call[c].on => flow'[f].closed
<1>1. CASE Shares(c, call'[c].on) \/ Begins(c) \/ Detaches(c, call'[c].on) \/ Leaves(c)
  BY <1>1 DEF Shares, Begins, Detaches, Leaves, OtherFlows, SameWindow
<1>2. CASE Binds(c, call[c].on) \/ Completes(c, call[c].on) \/ Marks(c, call[c].on)
  BY <1>2 DEF Binds, Completes, Marks, OtherFlows, SameWindow
<1>3. CASE Closes(c, call[c].on)
  BY <1>3 DEF Closes, OtherFlows
<1>4. CASE Credits(c, call[c].on)
  BY <1>4 DEF Credits, OtherFlows
<1> QED  BY <1>1, <1>2, <1>3, <1>4 DEF Effect, FlowMove

\* A flow that is in the registry and open stays in it.
LEMMA StaysRegistered ==
    ASSUME Types, Current, NEW c \in Calls, Effect(c), NEW f \in Calls, Registered(f), ~flow[f].closed
    PROVE  Registered(f)'
<1>1. Key[f] \in Keys /\ registry[Key[f]] = f /\ f # None
  BY RegistryAssumption DEF Registered
<1>2. CASE registry'[Key[f]] # registry[Key[f]]
  <2>1. call[c].pc = "delete" /\ f = call[c].on
    BY <1>1, <1>2, RegistryAfter
  <2> QED  BY <2>1 DEF Current
<1> QED  BY <1>1, <1>2 DEF Registered

LEMMA CurrentStep ==
    ASSUME Types, AllPlaced, Mutex, Current, NEW c \in Calls, Effect(c)
    PROVE  Current'
<1>0. "reader" \notin Calls /\ None \notin Calls /\ None # "reader"
  BY RegistryAssumption
<1>1. /\ Moves(c) /\ Others(c) /\ reader' = reader
      /\ call'[c].pc = "writing" => call[c].pc = "active"
      /\ call'[c].pc = "delete" => call[c].pc = "close"
      /\ call[c].pc \in {"lock", "active", "writing", "close"} => call'[c].on = call[c].on /\ call[c].on \in Calls
  BY CreditMoves DEF Effect, Moves, AllPlaced, Placed
<1>2. ASSUME NEW d \in Calls, call'[d].pc = "writing"
      PROVE  Registered(call[d].on)' /\ ~flow'[call'[d].on].closed /\ flow'[call'[d].on].owed > 0
  <2>1. CASE d # c
    <3>1. PICK f \in Calls : f = call[d].on /\ call'[d].on = f /\ call[d].pc = "writing" /\ holder[f] = d
      BY SMTT(30), <1>1, <1>2, <2>1 DEF Others, AllPlaced, Placed, Mutex
    <3>2. Registered(f) /\ ~flow[f].closed /\ flow[f].owed > 0
      BY <3>1 DEF Current
    <3>3. ~(call[c].pc = "writing" /\ f = call[c].on)
      BY SMTT(30), <2>1, <3>1 DEF Mutex
    <3>4. ~flow'[f].closed /\ flow'[f].owed = flow[f].owed
      BY <1>0, <3>1, <3>2, <3>3, WindowAfter
    <3>5. Registered(f)'
      BY <3>2, StaysRegistered
    <3> QED  BY <3>1, <3>2, <3>4, <3>5 DEF Registered
  <2>2. CASE d = c
    <3>1. call[c].pc = "active"
      BY <1>1, <1>2, <2>2
    <3>2. PICK f \in Calls : f = call[c].on /\ call'[c].on = f
      BY <1>1, <3>1
    <3>3. Registered(f) /\ ~flow[f].closed /\ flow[f].owed > 0
      BY <1>2, <2>2, <3>1, <3>2 DEF Effect, LockMove
    <3>4. ~flow'[f].closed /\ flow'[f].owed = flow[f].owed
      BY <3>1, <3>3, WindowAfter
    <3>5. Registered(f)'
      BY <3>3, StaysRegistered
    <3> QED  BY <2>2, <3>2, <3>3, <3>4, <3>5 DEF Registered
  <2> QED  BY <2>1, <2>2
<1>3. ASSUME reader'.pc = "apply" PROVE Registered(reader.on)' /\ ~flow'[reader'.on].closed
  <2>1. PICK f \in Calls : f = reader.on /\ reader'.on = f /\ holder[f] = "reader"
    BY <1>1, <1>3 DEF Mutex
  <2>2. Registered(f) /\ ~flow[f].closed
    BY <1>1, <1>3, <2>1 DEF Current
  <2>3. ~flow'[f].closed
    BY <1>0, <2>1, <2>2, WindowAfter
  <2>4. Registered(f)'
    BY <2>2, StaysRegistered
  <2> QED  BY <2>1, <2>3, <2>4 DEF Registered
<1>4. ASSUME NEW d \in Calls, call'[d].pc = "delete" PROVE flow'[call'[d].on].closed
  <2>1. CASE d # c
    BY SMTT(30), <1>1, <1>4, <2>1, WindowAfter DEF Others, Current, AllPlaced, Placed
  <2>2. CASE d = c
    BY <1>1, <1>4, <2>2, WindowAfter
  <2> QED  BY <2>1, <2>2
<1> QED  BY <1>2, <1>3, <1>4 DEF Current

LEMMA OwedStep ==
    ASSUME Types, Current, Owed, NEW c \in Calls, Effect(c)
    PROVE  Owed'
<1> SUFFICES ASSUME NEW f \in Calls
             PROVE  /\ flow'[f].owed >= 0
                    /\ flow'[f].owed + (IF reader'.pc = "idle" THEN 0 ELSE 1) <= chunks'
  BY DEF Owed
<1>1. flow[f].owed \in Int /\ chunks \in Int /\ reader' = reader /\ chunks' = chunks
  BY SMTT(30), RegistryAssumption DEF Types, FlowTypes, FlowRecords, OtherTypes, Effect
<1>2. /\ flow[f].owed >= 0
      /\ flow[f].owed + (IF reader.pc = "idle" THEN 0 ELSE 1) <= chunks
  BY DEF Owed
<1>3. CASE flow'[f].owed = flow[f].owed
  BY <1>1, <1>2, <1>3
<1>4. CASE call[c].pc = "writing" /\ f = call[c].on /\ flow'[f].owed = flow[f].owed - 1
  <2>1. flow[f].owed > 0
    BY <1>4 DEF Current
  <2> QED  BY SMTT(30), <1>1, <1>2, <1>4, <2>1
<1> QED  BY <1>3, <1>4, WindowAfter

-----------------------------------------------------------------------------
(* Counting calls and streams *)

\* Who shares a flow is a finite set: it changes by the call that takes the step.
LEMMA SharingFinite ==
    ASSUME NEW f
    PROVE  IsFiniteSet(Sharing(f)) /\ Cardinality(Sharing(f)) \in Nat
           /\ Cardinality(Sharing(f)) <= Cardinality(Calls)
<1>1. Sharing(f) \in SUBSET Calls /\ IsFiniteSet(Calls)
  BY RegistryAssumption DEF Sharing
<1> QED  BY <1>1, FS_Subset, FS_CardinalityType

LEMMA SharingOthers ==
    ASSUME NEW c \in Calls, Others(c), NEW f, NEW d \in Calls, d # c
    PROVE  d \in Sharing(f)' <=> d \in Sharing(f)
BY DEF Sharing, Others

\* The four ways in which a step changes who shares a flow.
LEMMA SharingJoins ==
    ASSUME NEW c \in Calls, Others(c), Op[c] = "attach", call[c].pc = "start", call'[c].pc = "calling",
           NEW f \in Calls
    PROVE  Sharing(f)' = IF call'[c].on = f THEN Sharing(f) \cup {c} ELSE Sharing(f)
<1>1. c \notin Sharing(f) /\ (c \in Sharing(f)' <=> call'[c].on = f)
  BY DEF Sharing
<1>2. Sharing(f) \subseteq Calls /\ Sharing(f)' \subseteq Calls
  BY DEF Sharing
<1> QED  BY SMTT(30), <1>1, <1>2, SharingOthers

LEMMA SharingLeaves ==
    ASSUME NEW c \in Calls, Others(c), Op[c] = "attach", call[c].pc = "complete",
           call'[c].pc \in {"mark", "returned"}, NEW f \in Calls
    PROVE  /\ Sharing(f)' = IF call[c].on = f THEN Sharing(f) \ {c} ELSE Sharing(f)
           /\ c \in Sharing(f) <=> call[c].on = f
<1>1. c \notin Sharing(f)' /\ (c \in Sharing(f) <=> call[c].on = f)
  BY DEF Sharing
<1>2. Sharing(f) \subseteq Calls /\ Sharing(f)' \subseteq Calls
  BY DEF Sharing
<1> QED  BY SMTT(30), <1>1, <1>2, SharingOthers

LEMMA SharingKept ==
    ASSUME AllPlaced, NEW c \in Calls, Moves(c), call[c].pc # "complete",
           call[c].pc = "start" /\ Op[c] = "attach" => call'[c].pc = "returned", NEW f \in Calls
    PROVE  Sharing(f)' = Sharing(f)
<1>1. c \in Sharing(f)' <=> c \in Sharing(f)
  <2>1. CASE Op[c] # "attach"
    BY <2>1 DEF Sharing
  <2>2. CASE Op[c] = "attach" /\ Follows(c, call'[c].pc) /\ call'[c].on = call[c].on
    BY <2>2 DEF Sharing, Follows, AllPlaced, Placed
  <2>3. CASE Op[c] = "attach" /\ Takes(c, call'[c].pc, call'[c].on)
    BY <2>3 DEF Sharing, Takes, AllPlaced, Placed
  <2> QED  BY <2>1, <2>2, <2>3 DEF Moves
<1>2. Sharing(f) \subseteq Calls /\ Sharing(f)' \subseteq Calls
  BY DEF Sharing
<1>3. Others(c)
  BY DEF Moves
<1> QED  BY SMTT(30), <1>1, <1>2, <1>3, SharingOthers

LEMMA CountedStep ==
    ASSUME Types, AllPlaced, Created, Counted, NEW c \in Calls, Effect(c)
    PROVE  Counted'
<1> SUFFICES ASSUME NEW f \in Calls PROVE flow'[f].pending = Cardinality(Sharing(f)')
  BY DEF Counted, Sharing
<1>1. Moves(c) /\ Others(c)
  BY DEF Effect, Moves
<1>2. flow[f].pending = Cardinality(Sharing(f)) /\ IsFiniteSet(Sharing(f)) /\ Cardinality(Sharing(f)) \in Nat
  BY SharingFinite DEF Counted
<1>3. Cardinality(Sharing(f) \cup {c}) = IF c \in Sharing(f) THEN Cardinality(Sharing(f)) ELSE Cardinality(Sharing(f)) + 1
  BY <1>2, FS_AddElement
<1>4. Cardinality(Sharing(f) \ {c}) = IF c \in Sharing(f) THEN Cardinality(Sharing(f)) - 1 ELSE Cardinality(Sharing(f))
  BY <1>2, FS_RemoveElement
<1>5. call[c].pc = "start" => c \notin Sharing(f)
  BY DEF Sharing
<1>6. CASE Shares(c, call'[c].on)
  <2>1. Sharing(f)' = IF call'[c].on = f THEN Sharing(f) \cup {c} ELSE Sharing(f)
    BY <1>1, <1>6, SharingJoins DEF Shares
  <2>2. CASE call'[c].on = f
    BY <1>2, <1>3, <1>5, <1>6, <2>1, <2>2 DEF Shares
  <2>3. CASE call'[c].on # f
    BY <1>2, <1>6, <2>1, <2>3 DEF Shares, OtherFlows
  <2> QED  BY <2>2, <2>3
<1>7. CASE Begins(c)
  <2>1. Sharing(f)' = IF c = f THEN Sharing(f) \cup {c} ELSE Sharing(f)
    BY <1>1, <1>7, SharingJoins DEF Begins
  <2>2. CASE c = f
    <3>1. flow[f] = NoFlow
      BY <1>7, <2>2 DEF Begins, Created
    <3>2. flow[f].pending = 0
      BY SMTT(30), <3>1 DEF NoFlow
    <3> QED  BY SMTT(30), <1>2, <1>3, <1>5, <1>7, <2>1, <2>2, <3>2 DEF Begins
  <2>3. CASE c # f
    BY <1>2, <1>7, <2>1, <2>3 DEF Begins, OtherFlows
  <2> QED  BY <2>2, <2>3
<1>8. CASE Completes(c, call[c].on)
  <2>1. Op[c] = "attach" /\ call[c].pc = "complete" /\ call'[c].pc \in {"mark", "returned"}
    BY <1>1, <1>8 DEF Completes, AllPlaced, Placed, Moves, Follows, Takes
  <2>2. /\ Sharing(f)' = IF call[c].on = f THEN Sharing(f) \ {c} ELSE Sharing(f)
        /\ c \in Sharing(f) <=> call[c].on = f
    BY <1>1, <2>1, SharingLeaves
  <2>3. CASE call[c].on = f
    BY <1>2, <1>4, <1>8, <2>2, <2>3 DEF Completes
  <2>4. CASE call[c].on # f
    BY <1>2, <1>8, <2>2, <2>4 DEF Completes, OtherFlows
  <2> QED  BY <2>3, <2>4
<1>9. CASE Detaches(c, call'[c].on) \/ Leaves(c)
  <2>1. Sharing(f)' = Sharing(f)
    BY <1>1, <1>9, SharingKept DEF Detaches, Leaves
  <2>2. flow'[f].pending = flow[f].pending
    BY <1>9 DEF Detaches, Leaves, OtherFlows, SameBooks
  <2> QED  BY <1>2, <2>1, <2>2
<1>10. CASE \/ Binds(c, call[c].on) \/ Marks(c, call[c].on) \/ Closes(c, call[c].on) \/ Credits(c, call[c].on)
  <2>1. Sharing(f)' = Sharing(f)
    BY <1>1, <1>10, SharingKept DEF Binds, Marks, Closes, Credits
  <2>2. flow'[f].pending = flow[f].pending
    BY <1>10 DEF Binds, Marks, Closes, Credits, OtherFlows, SameBooks
  <2> QED  BY <1>2, <2>1, <2>2
<1> QED  BY <1>6, <1>7, <1>8, <1>9, <1>10 DEF Effect, FlowMove

LEMMA LimitedStep ==
    ASSUME Types, AllPlaced, Limited, NEW c \in Calls, Effect(c)
    PROVE  Limited'
<1>1. Key[c] \in Keys /\ c # None /\ registry \in [Keys -> Calls \cup {None}] /\ MaxSubscriptions \in Nat
  BY RegistryAssumption DEF Types, OtherTypes
<1>2. IsFiniteSet(Taken) /\ Cardinality(Taken) \in Nat /\ Cardinality(Taken) <= MaxSubscriptions
  BY FS_CardinalityType DEF Limited
<1>3. CASE registry' = registry
  BY <1>3 DEF Limited, Taken
<1>4. CASE /\ registry[Key[c]] = None /\ Count < MaxSubscriptions
           /\ registry' = [registry EXCEPT ![Key[c]] = c]
  <2>1. Taken' = Taken \cup {Key[c]}
    BY <1>1, <1>4 DEF Taken
  <2>2. Cardinality(Taken) < MaxSubscriptions
    BY <1>4 DEF Count, Taken
  <2>3. /\ IsFiniteSet(Taken \cup {Key[c]})
        /\ Cardinality(Taken \cup {Key[c]}) = IF Key[c] \in Taken THEN Cardinality(Taken) ELSE Cardinality(Taken) + 1
    BY <1>2, FS_AddElement
  <2>4. Cardinality(Taken \cup {Key[c]}) <= MaxSubscriptions
    BY SMTT(30), <1>1, <1>2, <2>2, <2>3
  <2> QED  BY <2>1, <2>3, <2>4 DEF Limited
<1>5. CASE call[c].pc = "delete" /\ registry' = [registry EXCEPT ![Key[call[c].on]] = None]
  <2>1. Taken' \in SUBSET Taken
    BY <1>1, <1>5 DEF Taken
  <2>2. IsFiniteSet(Taken') /\ Cardinality(Taken') <= Cardinality(Taken)
    BY <1>2, <2>1, FS_Subset
  <2>3. Cardinality(Taken') \in Nat
    BY <2>2, FS_CardinalityType
  <2> QED  BY SMTT(30), <1>1, <1>2, <2>2, <2>3 DEF Limited
<1> QED  BY <1>3, <1>4, <1>5 DEF Effect, RegistryMove

\* A flow that may leave the registry is not taken up again.
LEMMA ReleasedKept ==
    ASSUME Types, AllPlaced, Created, Counted, NEW c \in Calls, Effect(c), NEW f \in Calls, Released(f)
    PROVE  Released(f)'
<1> SUFFICES ASSUME Op[f] = "attach" PROVE flow'[f].detached \/ Removed(f)'
  BY DEF Released
<1>1. flow[f].detached \/ Removed(f)
  BY DEF Released
<1>2. CASE Shares(c, call'[c].on)
  BY <1>1, <1>2 DEF Shares, OtherFlows, SameEnd, Removed
<1>3. CASE Begins(c)
  <2>1. CASE f = c
    <3>1. flow[f] = NoFlow
      BY <1>3, <2>1 DEF Begins, Created
    <3>2. ~flow[f].detached /\ ~flow[f].retiring
      BY SMTT(30), <3>1 DEF NoFlow
    <3> QED  BY <1>1, <3>2 DEF Removed
  <2>2. CASE f # c
    BY <1>1, <1>3, <2>2 DEF Begins, OtherFlows, Removed
  <2> QED  BY <2>1, <2>2
<1>4. CASE Completes(c, call[c].on)
  <2>1. CASE f # call[c].on
    BY <1>1, <1>4, <2>1 DEF Completes, OtherFlows, Removed
  <2>2. CASE f = call[c].on /\ flow[f].detached
    BY <1>4, <2>2 DEF Completes
  <2>3. CASE f = call[c].on /\ Removed(f)
    <3>1. c \in Sharing(f)
      BY <1>4, <2>3 DEF Completes, Sharing, AllPlaced, Placed
    <3>2. Cardinality(Sharing(f)) = 0 /\ IsFiniteSet(Sharing(f))
      BY <2>3, SharingFinite DEF Counted, Removed
    <3>3. Sharing(f) = {}
      BY <3>2, FS_EmptySet
    <3> QED  BY <3>1, <3>3
  <2> QED  BY <1>1, <2>1, <2>2, <2>3
<1>5. CASE Detaches(c, call'[c].on) \/ Leaves(c)
  BY <1>1, <1>5 DEF Detaches, Leaves, OtherFlows, SameBooks, Removed
<1>6. CASE \/ Binds(c, call[c].on) \/ Marks(c, call[c].on) \/ Closes(c, call[c].on) \/ Credits(c, call[c].on)
  BY <1>1, <1>6 DEF Binds, Marks, Closes, Credits, OtherFlows, SameBooks, SameEnd, Removed
<1> QED  BY <1>2, <1>3, <1>4, <1>5, <1>6 DEF Effect, FlowMove

LEMMA RememberedStep ==
    ASSUME Types, AllPlaced, Created, Counted, Remembered, NEW c \in Calls, Effect(c)
    PROVE  Remembered'
<1>1. Moves(c) /\ Others(c) /\ AllPlaced'
  BY PlacedStep DEF Effect, Moves
<1>2. ASSUME NEW d \in Calls, call'[d].pc \in {"mark", "close", "delete"}
      PROVE  Released(call[d].on)'
  <2>0. PICK f \in Calls : f = call'[d].on
    BY <1>1, <1>2 DEF AllPlaced, Placed
  <2> SUFFICES Released(f)'
    BY <2>0 DEF Released, Removed
  <2>1. CASE d # c
    BY <1>1, <1>2, <2>0, <2>1, ReleasedKept DEF Others, Remembered
  <2>2. CASE d = c /\ call[c].pc \in {"mark", "close", "delete"}
    <3>1. call'[c].on = call[c].on
      BY <1>1, <2>2 DEF Moves, Follows, Takes
    <3> QED  BY <2>0, <2>2, <3>1, ReleasedKept DEF Remembered
  <2>3. CASE d = c /\ call[c].pc \in {"calling", "bind"}
    <3>1. Op[c] = "subscribe" /\ call'[c].pc = "mark"
      BY <1>1, <1>2, <2>3 DEF Moves, Follows, Takes, AllPlaced, Placed
    <3>2. f = c
      BY <1>1, <2>0, <2>3, <3>1 DEF AllPlaced, Placed
    <3> QED  BY <3>1, <3>2 DEF Released
  <2>4. CASE d = c /\ call[c].pc = "complete"
    <3>1. Completes(c, call[c].on) /\ call'[c].pc = "mark" /\ call'[c].on = call[c].on
      <4>1. call'[c].pc = "mark" /\ call'[c].on = call[c].on
        BY <1>1, <1>2, <2>4 DEF Moves, Follows, Takes
      <4>2. Completes(c, call[c].on)
        BY <2>4 DEF Effect, FlowMove, Shares, Begins, Detaches, Leaves, Binds, Marks, Closes, Credits
      <4> QED  BY <4>1, <4>2
    <3> QED  BY <2>0, <2>4, <3>1 DEF Completes, Released, Removed
  <2>5. CASE d = c /\ call[c].pc = "scan"
    <3>1. call'[c].pc = "mark"
      BY <1>1, <1>2, <2>5 DEF Moves, Follows, Takes
    <3>2. Detaches(c, call'[c].on)
      BY <2>5, <3>1 DEF Effect, FlowMove, Shares, Begins, Completes, Leaves, Binds, Marks, Closes, Credits
    <3> QED  BY <2>0, <2>5, <3>2 DEF Detaches, Released
  <2> QED  BY <1>1, <1>2, <2>1, <2>2, <2>3, <2>4, <2>5 DEF Moves, Follows, Takes
<1>3. ASSUME NEW f \in Calls, flow'[f].digest # None, ~Registered(f)'
      PROVE  Released(f)'
  <2>0. Key[f] \in Keys /\ f # None
    BY RegistryAssumption
  <2>1. CASE flow[f].digest # None /\ ~Registered(f)
    BY <2>1, ReleasedKept DEF Remembered
  <2>2. CASE Registered(f)
    <3>1. call[c].pc = "delete" /\ f = call[c].on
      BY <1>3, <2>0, <2>2, RegistryAfter DEF Registered
    <3> QED  BY <3>1, ReleasedKept DEF Remembered
  <2>3. CASE flow[f].digest = None /\ ~Registered(f)
    <3>1. Begins(c) /\ f = c
      BY <1>3, <2>3 DEF Effect, FlowMove, Shares, Detaches, Leaves, Binds, Completes, Marks, Closes, Credits, OtherFlows, SameBooks, Begins
    <3>2. Registered(f)'
      BY <2>0, <3>1 DEF Begins, Registered, Types, OtherTypes
    <3> QED  BY <1>3, <3>2
  <2> QED  BY <2>1, <2>2, <2>3
<1> QED  BY <1>2, <1>3 DEF Remembered

LEMMA CallStep ==
    ASSUME IInv, NEW c \in Calls, Proceed(c) \/ Abandon(c)
    PROVE  IInv'
<1>1. Effect(c)
  BY CallEffect DEF IInv
<1>2. Types' /\ AllPlaced' /\ Created'
  BY <1>1, TypesStep, PlacedStep, CreatedStep DEF IInv, Effect
<1>3. Mutex' /\ Current' /\ Owed'
  BY <1>1, MutexStep, CurrentStep, OwedStep DEF IInv
<1>4. Counted' /\ Limited' /\ Remembered'
  BY <1>1, CountedStep, LimitedStep, RememberedStep DEF IInv
<1> QED  BY <1>2, <1>3, <1>4 DEF IInv

-----------------------------------------------------------------------------
(* Steps of the reader and of the provider *)

SameCalls == call' = call /\ registry' = registry /\ workload' = workload
SameFlow(f) == SameBooks(f) /\ SameEnd(f) /\ flow'[f].closed = flow[f].closed

\* What a step that no call takes leaves alone.
LEMMA ReaderKeeps ==
    ASSUME IInv, SameCalls, Types', Mutex', Current', Owed',
           \A f \in Calls : SameFlow(f),
           \A d \in Calls : call[d].pc = "start" => flow'[d] = flow[d],
           reader'.on # None => call[reader'.on].pc # "start"
    PROVE  IInv'
<1>1. AllPlaced'
  BY DEF IInv, SameCalls, AllPlaced, Placed
<1>2. Created'
  BY DEF IInv, SameCalls, Created
<1>3. Counted'
  <2>1. \A f \in Calls : Sharing(f)' = Sharing(f) /\ flow'[f].pending = flow[f].pending
    BY DEF SameCalls, SameFlow, SameBooks, Sharing
  <2> QED  BY <2>1 DEF IInv, Counted
<1>4. Limited'
  BY DEF IInv, SameCalls, Limited, Taken
<1>5. \A f \in Calls : Released(f) => Released(f)'
  BY DEF SameFlow, SameBooks, SameEnd, Released, Removed
<1>6. \A c \in Calls : call[c].pc \in {"mark", "close", "delete"} => call[c].on \in Calls
  BY DEF IInv, AllPlaced, Placed
<1>7. Remembered'
  <2>1. ASSUME NEW c \in Calls, call'[c].pc \in {"mark", "close", "delete"} PROVE Released(call[c].on)'
    <3>1. PICK f \in Calls : f = call[c].on
      BY <1>6, <2>1 DEF SameCalls
    <3>2. Released(f)'
      BY <1>5, <2>1, <3>1 DEF SameCalls, IInv, Remembered
    <3> QED  BY <3>1, <3>2 DEF SameCalls, Released, Removed
  <2>2. ASSUME NEW f \in Calls, flow'[f].digest # None, ~Registered(f)' PROVE Released(f)'
    BY <1>5, <2>2 DEF SameFlow, SameBooks, SameCalls, IInv, Remembered, Registered
  <2> QED  BY <2>1, <2>2 DEF Remembered
<1> QED  BY <1>1, <1>2, <1>3, <1>4, <1>7 DEF IInv

\* The flow that a stream's chunk is for.
LEMMA LookupFlow ==
    ASSUME IInv, NEW k \in Keys, Lookup(k) # None
    PROVE  Lookup(k) \in Calls /\ call[Lookup(k)].pc # "start"
<1>1. registry[k] \in Calls \cup {None} /\ (registry[k] # None => call[registry[k]].pc # "start")
  BY DEF IInv, Types, OtherTypes, Created
<1> QED  BY <1>1 DEF Lookup

LEMMA ReadChunkStep ==
    ASSUME IInv, NEW k \in Keys, ReadChunk(k)
    PROVE  IInv'
<1>1. /\ SameCalls /\ flow' = flow /\ holder' = holder /\ streaming' = streaming
      /\ reader = Idle /\ chunks' = chunks + 1 /\ chunks < MaxChunks
      /\ \/ reader' = reader /\ failed' = TRUE
         \/ Lookup(k) # None /\ reader' = [pc |-> "lock", on |-> Lookup(k)] /\ failed' = failed
  BY DEF ReadChunk, SameCalls, Fail
<1>2. chunks \in 0..MaxChunks /\ MaxChunks \in Nat
  BY RegistryAssumption DEF IInv, Types, OtherTypes
<1>3. chunks' \in 0..MaxChunks
  BY SMTT(30), <1>1, <1>2
<1>4. PICK p \in {"idle", "lock"}, o \in Calls \cup {None} :
          /\ reader' = [pc |-> p, on |-> o] /\ (p = "lock" => o \in Calls)
          /\ o # None => call[o].pc # "start"
  <2>1. CASE reader' = reader
    BY <1>1, <2>1 DEF Idle
  <2>2. CASE Lookup(k) # None /\ reader' = [pc |-> "lock", on |-> Lookup(k)]
    BY <2>2, LookupFlow
  <2> QED  BY <1>1, <2>1, <2>2
<1>5. reader'.pc = p /\ reader'.on = o /\ reader.pc = "idle"
  BY <1>1, <1>4 DEF Idle
<1>6. Types'
  <2>1. CallTypes' /\ FlowTypes'
    BY <1>1 DEF IInv, Types, CallTypes, FlowTypes, SameCalls
  <2>2. LockTypes'
    BY <1>1, <1>4 DEF IInv, Types, LockTypes
  <2>3. OtherTypes'
    BY <1>1, <1>3 DEF IInv, Types, OtherTypes, SameCalls
  <2> QED  BY <2>1, <2>2, <2>3 DEF Types
<1>7. Mutex'
  BY <1>1, <1>4, <1>5 DEF IInv, Mutex, SameCalls
<1>8. Current'
  BY <1>1, <1>4, <1>5 DEF IInv, Current, SameCalls, Registered
<1>9. Owed'
  <2> SUFFICES ASSUME NEW f \in Calls
               PROVE  /\ flow'[f].owed >= 0
                      /\ flow'[f].owed + (IF reader'.pc = "idle" THEN 0 ELSE 1) <= chunks'
    BY DEF Owed
  <2>1. flow[f].owed \in Int /\ flow[f].owed >= 0 /\ flow[f].owed + 0 <= chunks
    BY <1>5 DEF IInv, Owed, Types, FlowTypes, FlowRecords
  <2> QED  BY SMTT(30), <1>1, <1>2, <2>1
<1>10. \A f \in Calls : SameFlow(f)
  BY <1>1 DEF SameFlow, SameBooks, SameEnd
<1> QED  BY <1>1, <1>4, <1>5, <1>6, <1>7, <1>8, <1>9, <1>10, ReaderKeeps

LEMMA LockForChunkStep ==
    ASSUME IInv, LockForChunk
    PROVE  IInv'
<1>1. /\ SameCalls /\ flow' = flow /\ streaming' = streaming /\ chunks' = chunks /\ failed' = failed
      /\ reader.pc = "lock" /\ holder[reader.on] = None
      /\ holder' = [holder EXCEPT ![reader.on] = "reader"]
      /\ reader' = [reader EXCEPT !.pc = "active"]
  BY DEF LockForChunk, SameCalls, other
<1>2. PICK g \in Calls : g = reader.on
  BY <1>1 DEF IInv, Mutex
<1>3. reader'.pc = "active" /\ reader'.on = g
  BY <1>1, <1>2 DEF IInv, Types, LockTypes
<1>4. LockTypes'
  BY <1>1, <1>2 DEF IInv, Types, LockTypes
<1>5. Types'
  BY <1>1, <1>4 DEF IInv, Types, CallTypes, FlowTypes, OtherTypes, SameCalls
<1>6. holder[g] = None /\ holder'[g] = "reader" /\ \A f \in Calls : f # g => holder'[f] = holder[f]
  BY <1>1, <1>2 DEF IInv, Types, LockTypes
<1>7. Mutex'
  <2>1. \A c \in Calls : call'[c].pc \in {"active", "writing"} => call'[c].on \in Calls /\ holder'[call'[c].on] = c
    <3>1. \A c \in Calls : call[c].pc \in {"active", "writing"} => call[c].on \in Calls /\ holder[call[c].on] = c
      BY DEF IInv, Mutex, AllPlaced, Placed
    <3> QED  BY SMTT(30), <1>1, <1>6, <3>1, RegistryAssumption DEF SameCalls
  <2>2. \A f \in Calls : holder'[f] \in Calls =>
            call'[holder'[f]].on = f /\ call'[holder'[f]].pc \in {"active", "writing"}
    BY SMTT(30), <1>1, <1>6, RegistryAssumption DEF SameCalls, IInv, Mutex
  <2>3. \A f \in Calls : holder'[f] = "reader" => f = g
    BY SMTT(30), <1>1, <1>6 DEF IInv, Mutex
  <2> QED  BY <1>3, <1>6, <2>1, <2>2, <2>3 DEF Mutex
<1>8. Current'
  BY <1>1, <1>3 DEF IInv, Current, SameCalls, Registered
<1>9. Owed'
  BY <1>1, <1>3 DEF IInv, Owed
<1>10. \A f \in Calls : SameFlow(f)
  BY <1>1 DEF SameFlow, SameBooks, SameEnd
<1>11. call[g].pc # "start"
  BY <1>2, RegistryAssumption DEF IInv, Created
<1> QED  BY <1>1, <1>3, <1>5, <1>7, <1>8, <1>9, <1>10, <1>11, ReaderKeeps

\* The reader gives the mutex of its flow back.
LEMMA ReaderUnlocks ==
    ASSUME IInv, SameCalls, reader.pc \in {"active", "apply"}, reader' = Idle,
           holder' = [holder EXCEPT ![reader.on] = None]
    PROVE  LockTypes' /\ Mutex'
<1>1. PICK g \in Calls : g = reader.on /\ holder[g] = "reader"
  BY DEF IInv, Mutex
<1>2. LockTypes'
  BY <1>1 DEF IInv, Types, LockTypes, Idle
<1>3. holder'[g] = None /\ \A f \in Calls : f # g => holder'[f] = holder[f]
  BY <1>1 DEF IInv, Types, LockTypes
<1>4. reader'.pc = "idle"
  BY DEF Idle
<1>5. \A c \in Calls : call[c].pc \in {"active", "writing"} => call[c].on \in Calls /\ holder[call[c].on] = c
  BY DEF IInv, Mutex, AllPlaced, Placed
<1>6. \A c \in Calls : call'[c].pc \in {"active", "writing"} => holder'[call'[c].on] = c
  BY SMTT(30), <1>1, <1>3, <1>5, RegistryAssumption DEF SameCalls
<1>7. \A f \in Calls : holder'[f] \in Calls =>
          call'[holder'[f]].on = f /\ call'[holder'[f]].pc \in {"active", "writing"}
  BY SMTT(30), <1>3, RegistryAssumption DEF SameCalls, IInv, Mutex
<1>8. \A f \in Calls : holder'[f] # "reader"
  BY SMTT(30), <1>1, <1>3, RegistryAssumption DEF IInv, Mutex
<1> QED  BY <1>2, <1>4, <1>6, <1>7, <1>8 DEF Mutex

LEMMA CheckChunkStep ==
    ASSUME IInv, CheckChunk
    PROVE  IInv'
<1>1. /\ SameCalls /\ flow' = flow /\ streaming' = streaming /\ chunks' = chunks
      /\ reader.pc = "active"
  BY DEF CheckChunk, SameCalls, other
<1>2. \A f \in Calls : SameFlow(f)
  BY <1>1 DEF SameFlow, SameBooks, SameEnd
<1>3. PICK g \in Calls : g = reader.on /\ holder[g] = "reader" /\ call[g].pc # "start"
  BY <1>1, RegistryAssumption DEF IInv, Mutex, Created
<1>4. CASE /\ ~flow[reader.on].closed /\ Active(reader.on)
           /\ reader' = [reader EXCEPT !.pc = "apply"] /\ UNCHANGED <<holder, failed>>
  <2>1. reader'.pc = "apply" /\ reader'.on = g /\ LockTypes'
    BY <1>3, <1>4 DEF IInv, Types, LockTypes
  <2>2. Types'
    BY <1>1, <1>4, <2>1 DEF IInv, Types, CallTypes, FlowTypes, OtherTypes, SameCalls
  <2>3. Mutex'
    BY SMTT(30), <1>1, <1>3, <1>4, <2>1 DEF IInv, Mutex, SameCalls
  <2>4. Current'
    BY <1>1, <1>3, <1>4, <2>1 DEF IInv, Current, SameCalls, Registered, Active
  <2>5. Owed'
    BY <1>1, <2>1 DEF IInv, Owed
  <2> QED  BY <1>1, <1>2, <1>3, <2>1, <2>2, <2>3, <2>4, <2>5, ReaderKeeps
<1>5. CASE reader' = Idle /\ holder' = [holder EXCEPT ![reader.on] = None] /\ Fail
  <2>1. LockTypes' /\ Mutex' /\ reader'.pc = "idle" /\ reader'.on = None
    BY <1>1, <1>5, ReaderUnlocks DEF Idle
  <2>2. Types'
    BY <1>1, <1>5, <2>1 DEF IInv, Types, CallTypes, FlowTypes, OtherTypes, SameCalls, Fail
  <2>3. Current'
    BY <1>1, <2>1 DEF IInv, Current, SameCalls, Registered
  <2>4. Owed'
    <3> SUFFICES ASSUME NEW f \in Calls
                 PROVE  /\ flow'[f].owed >= 0
                        /\ flow'[f].owed + (IF reader'.pc = "idle" THEN 0 ELSE 1) <= chunks'
      BY DEF Owed
    <3>1. flow[f].owed \in Int /\ flow[f].owed >= 0 /\ flow[f].owed + 1 <= chunks /\ chunks \in Int
      BY SMTT(30), <1>1, RegistryAssumption DEF IInv, Owed, Types, FlowTypes, FlowRecords, OtherTypes
    <3> QED  BY SMTT(30), <1>1, <2>1, <3>1
  <2> QED  BY <1>1, <1>2, <2>1, <2>2, <2>3, <2>4, ReaderKeeps
<1> QED  BY <1>4, <1>5 DEF CheckChunk

LEMMA ApplyChunkStep ==
    ASSUME IInv, ApplyChunk
    PROVE  IInv'
<1>1. /\ SameCalls /\ streaming' = streaming /\ chunks' = chunks /\ failed' = failed
      /\ reader.pc = "apply" /\ reader' = Idle /\ holder' = [holder EXCEPT ![reader.on] = None]
  BY DEF ApplyChunk, SameCalls, other
<1>2. PICK g \in Calls : g = reader.on /\ holder[g] = "reader" /\ call[g].pc # "start"
  BY <1>1, RegistryAssumption DEF IInv, Mutex, Created
<1>3. FlowTypes /\ flow[g].owed \in Int /\ chunks \in Int
  BY SMTT(30), RegistryAssumption DEF IInv, Types, FlowTypes, FlowRecords, OtherTypes
<1>4. flow' = [flow EXCEPT ![g].owed = flow[g].owed + 1]
  BY <1>2 DEF ApplyChunk
<1>5. /\ FlowTypes' /\ OtherFlows(g) /\ flow'[g].owed = flow[g].owed + 1
      /\ SameFlow(g)
  <2>1. PICK o \in Int : o = flow[g].owed + 1
    BY SMTT(30), <1>3
  <2>2. flow' = [flow EXCEPT ![g].owed = o]
    BY <1>4, <2>1
  <2> QED  BY <1>3, <2>1, <2>2, FlowOwed DEF SameFlow, SameBooks, SameEnd
<1>6. \A f \in Calls : f # g => flow'[f] = flow[f]
  BY <1>5 DEF OtherFlows
<1>7. \A f \in Calls : SameFlow(f)
  BY <1>5, <1>6 DEF SameFlow, SameBooks, SameEnd
<1>8. LockTypes' /\ Mutex' /\ reader'.pc = "idle" /\ reader'.on = None
  BY <1>1, ReaderUnlocks DEF Idle
<1>9. Types'
  <2>1. CallTypes' /\ OtherTypes'
    BY <1>1 DEF IInv, Types, CallTypes, OtherTypes, SameCalls
  <2> QED  BY <1>5, <1>8, <2>1 DEF Types
<1>10. Current'
  <2>1. \A c \in Calls : call[c].pc = "writing" => call[c].on \in Calls /\ call[c].on # g
    BY SMTT(30), <1>2, RegistryAssumption DEF IInv, Mutex, AllPlaced, Placed
  <2>2. \A c \in Calls : call[c].pc = "delete" => call[c].on \in Calls
    BY DEF IInv, AllPlaced, Placed
  <2>3. \A c \in Calls : call[c].pc = "writing" =>
            Registered(call[c].on) /\ ~flow[call[c].on].closed /\ flow[call[c].on].owed > 0
    BY DEF IInv, Current
  <2>4. ASSUME NEW c \in Calls, call'[c].pc = "writing"
        PROVE  Registered(call[c].on)' /\ ~flow'[call'[c].on].closed /\ flow'[call'[c].on].owed > 0
    BY <1>1, <1>6, <2>1, <2>3, <2>4 DEF SameCalls, Registered
  <2>5. ASSUME NEW c \in Calls, call'[c].pc = "delete" PROVE flow'[call'[c].on].closed
    BY <1>1, <1>7, <2>2, <2>5 DEF SameCalls, SameFlow, IInv, Current
  <2> QED  BY <1>8, <2>4, <2>5 DEF Current
<1>11. Owed'
  <2> SUFFICES ASSUME NEW f \in Calls
               PROVE  /\ flow'[f].owed >= 0
                      /\ flow'[f].owed + (IF reader'.pc = "idle" THEN 0 ELSE 1) <= chunks'
    BY DEF Owed
  <2>1. flow[f].owed \in Int /\ flow[f].owed >= 0 /\ flow[f].owed + 1 <= chunks
    BY <1>1 DEF IInv, Owed, Types, FlowTypes, FlowRecords
  <2>2. flow'[f].owed \in {flow[f].owed, flow[f].owed + 1}
    BY <1>5, <1>6
  <2> QED  BY SMTT(30), <1>1, <1>3, <1>8, <2>1, <2>2
<1>12. \A d \in Calls : call[d].pc = "start" => flow'[d] = flow[d]
  BY <1>2, <1>6
<1> QED  BY <1>1, <1>7, <1>8, <1>9, <1>10, <1>11, <1>12, ReaderKeeps

\* Stuttering, and the provider that stalls.
LEMMA IdleStep ==
    ASSUME IInv, SameCalls, UNCHANGED <<flow, holder, reader, streaming, chunks, failed>>
    PROVE  IInv'
<1>1. Types'
  BY DEF IInv, SameCalls, Types, CallTypes, FlowTypes, LockTypes, OtherTypes
<1>2. Mutex' /\ Current' /\ Owed'
  BY DEF IInv, SameCalls, Mutex, Current, Owed, Registered
<1>3. \A f \in Calls : SameFlow(f)
  BY DEF SameFlow, SameBooks, SameEnd
<1>4. reader'.on # None => call[reader'.on].pc # "start"
  BY DEF IInv, Created
<1> QED  BY <1>1, <1>2, <1>3, <1>4, ReaderKeeps

LEMMA InitIInv == Init => IInv
<1> SUFFICES ASSUME Init PROVE IInv
  OBVIOUS
<1>1. Types
  BY InitTypes
<1>2. /\ registry = [k \in Keys |-> None] /\ \A f \in Calls : flow[f] = NoFlow /\ holder[f] = None
      /\ \A c \in Calls : /\ call[c].pc \in {"start", "returned"} /\ call[c].on = None
                          /\ call[c].scan = {}
      /\ reader.pc = "idle" /\ reader.on = None /\ chunks = 0
  BY DEF Init, Idle
<1>3. AllPlaced
  BY <1>2 DEF AllPlaced, Placed
<1>4. Created
  BY <1>2 DEF Created
<1>5. Mutex /\ Current
  BY <1>2, RegistryAssumption DEF Mutex, Current
<1>6. Owed
  BY SMTT(30), <1>2 DEF Owed, NoFlow
<1>7. Counted
  <2>1. \A f \in Calls : Sharing(f) = {} /\ flow[f].pending = 0
    BY SMTT(30), <1>2 DEF Sharing, NoFlow
  <2> QED  BY <2>1, FS_EmptySet DEF Counted
<1>8. Limited
  <2>1. Taken = {}
    BY <1>2 DEF Taken
  <2> QED  BY SMTT(30), <2>1, FS_EmptySet, RegistryAssumption DEF Limited
<1>9. Remembered
  BY SMTT(30), <1>2 DEF Remembered, NoFlow
<1> QED  BY <1>1, <1>3, <1>4, <1>5, <1>6, <1>7, <1>8, <1>9 DEF IInv

LEMMA NextIInv == IInv /\ [Next]_vars => IInv'
<1> SUFFICES ASSUME IInv, [Next]_vars PROVE IInv'
  OBVIOUS
<1>1. ASSUME NEW c \in Calls, Proceed(c) \/ Abandon(c) PROVE IInv'
  BY <1>1, CallStep
<1>2. ASSUME NEW k \in Keys, ReadChunk(k) PROVE IInv'
  BY <1>2, ReadChunkStep
<1>3. CASE ReaderStep
  BY <1>3, LockForChunkStep, CheckChunkStep, ApplyChunkStep DEF ReaderStep
<1>4. CASE Stall \/ UNCHANGED vars
  <2>1. SameCalls /\ UNCHANGED <<flow, holder, reader, streaming, chunks, failed>>
    BY <1>4 DEF Stall, vars, SameCalls
  <2> QED  BY <2>1, IdleStep
<1> QED  BY <1>1, <1>2, <1>3, <1>4 DEF Next

LEMMA IInvHolds == Spec => []IInv
BY InitIInv, NextIInv, PTL DEF Spec

-----------------------------------------------------------------------------
(* What the invariant says about the registry *)

LEMMA InvTypeOK == IInv => TypeOK
<1> SUFFICES ASSUME IInv PROVE TypeOK
  OBVIOUS
<1>1. Count <= MaxSubscriptions
  BY DEF IInv, Limited, Taken, Count
<1>2. \A k \in Keys : registry[k] # None => Key[registry[k]] = k
  BY DEF IInv, Created
<1>3. ASSUME NEW f \in Calls PROVE flow[f].pending \in 0..Cardinality(Calls)
  <2>1. Cardinality(Calls) \in Nat
    BY RegistryAssumption, FS_CardinalityType
  <2>2. flow[f].pending \in Nat /\ flow[f].pending <= Cardinality(Calls)
    BY SharingFinite DEF IInv, Counted
  <2> QED  BY SMTT(30), <2>1, <2>2
<1>4. ASSUME NEW f \in Calls PROVE flow[f].owed \in 0..MaxChunks
  <2>1. flow[f].owed \in Int /\ chunks \in 0..MaxChunks /\ MaxChunks \in Nat
    BY RegistryAssumption DEF IInv, Types, FlowTypes, FlowRecords, OtherTypes
  <2>2. flow[f].owed >= 0 /\ flow[f].owed + (IF reader.pc = "idle" THEN 0 ELSE 1) <= chunks
    BY DEF IInv, Owed
  <2> QED  BY SMTT(30), <2>1, <2>2
<1>5. \A f \in Calls : flow[f].sub \in Subs \cup {None}
  BY DEF IInv, Types, FlowTypes, FlowRecords
<1>6. \A f \in Calls :
          /\ holder[f] \in Calls => call[holder[f]].on = f /\ call[holder[f]].pc \in {"active", "writing"}
          /\ holder[f] = "reader" => reader.on = f /\ reader.pc \in {"active", "apply"}
  BY DEF IInv, Mutex
<1> QED  BY <1>1, <1>2, <1>3, <1>4, <1>5, <1>6 DEF TypeOK, IInv, Types, OtherTypes

\* The registry's books are right in every reachable state: MaxSubscriptions is never
\* exceeded, a stream's flow is a flow of that stream, a flow's mutex is held by who is
\* between its lock and its unlock, no more chunks are owed than were sent, and
\* attachPending is exactly the number of attaches that share the flow and were not
\* completed (reserveAttachedTerminalFlow, completeAttachedTerminalFlow).
THEOREM RegistryIsCounted == Spec => []RegistryCounted
<1>1. IInv => PendingCounted
  BY DEF IInv, Counted, Sharing, PendingCounted
<1>2. IInv => RegistryCounted
  BY <1>1, InvTypeOK DEF RegistryCounted
<1> QED  BY <1>2, IInvHolds, PTL

\* A flow that an attach created leaves the registry only when a detach named its
\* subscription, or when no attach that shared it was accepted, left in doubt or is
\* still to be completed, however retries, refusals and retirements interleave.
THEOREM NoStreamIsForgotten == Spec => []NoStreamForgotten
<1>1. IInv => NoStreamForgotten
  BY DEF IInv, Remembered, Released, Removed, NoStreamForgotten
<1> QED  BY <1>1, IInvHolds, PTL

\* Chunks and credit change what a flow is owed only while the flow is its stream's
\* flow and open, although the check and the change are separate steps: both are made
\* with the flow's mutex, and close takes the same mutex before the flow is deleted.
THEOREM OnlyCurrentFlowsChange == Spec => OnlyCurrentFlows
<1>1. ASSUME IInv, [Next]_vars, NEW f \in Calls, flow'[f].owed # flow[f].owed
      PROVE  Registered(f) /\ ~flow[f].closed
  <2>1. ASSUME NEW c \in Calls, Proceed(c) \/ Abandon(c)
        PROVE  Registered(f) /\ ~flow[f].closed
    <3>1. Effect(c) /\ Types
      BY <1>1, <2>1, CallEffect DEF IInv
    <3>2. call[c].pc = "writing" /\ f = call[c].on
      BY <1>1, <3>1, WindowAfter
    <3> QED  BY <1>1, <3>2 DEF IInv, Current
  <2>2. ASSUME NEW k \in Keys, ReadChunk(k) PROVE FALSE
    BY <1>1, <2>2 DEF ReadChunk
  <2>3. CASE LockForChunk \/ CheckChunk
    BY <1>1, <2>3 DEF LockForChunk, CheckChunk
  <2>4. CASE ApplyChunk
    <3>1. f = reader.on
      BY <1>1, <2>4 DEF ApplyChunk, IInv, Types, FlowTypes
    <3> QED  BY <1>1, <2>4, <3>1 DEF ApplyChunk, IInv, Current
  <2>5. CASE Stall \/ UNCHANGED vars
    BY <1>1, <2>5 DEF Stall, vars
  <2> QED  BY <1>1, <2>1, <2>2, <2>3, <2>4, <2>5 DEF Next, ReaderStep
<1>2. IInv /\ [Next]_vars =>
          [\A f \in Calls : flow'[f].owed # flow[f].owed => Registered(f) /\ ~flow[f].closed]_vars
  BY <1>1
<1> QED  BY <1>2, IInvHolds, PTL DEF Spec, OnlyCurrentFlows
=============================================================================
