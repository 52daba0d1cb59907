------------------------ MODULE MutationLedgerProofs ------------------------
(***************************************************************************)
(* Proofs about MutationLedger for any sets of requests, connections and   *)
(* commands.                                                               *)
(*                                                                         *)
(* The inductive invariant LedgerInv comes first, with the lemmas most     *)
(* actions need: a step that moves one goroutine and settles at most its   *)
(* own record preserves the invariant (MoveInv), and so does one that      *)
(* touches neither goroutines nor records (QuietInv).  Then the actions,   *)
(* in the order in which a command meets them, and the theorems.           *)
(***************************************************************************)
EXTENDS MutationLedger, TLAPS

\* The steps of a goroutine before, and after, its handler may run.
Early == {"idle", "lookup", "waiting", "admit", "dispatch"}
Late == {"respond", "enqueue", "flushing", "done"}

\* Where a goroutine is (p) determines what it replied (s), what its handler did (h),
\* where its frame is (f), the status of its own record (t) and the record it refers
\* to (m); k is its command.
Placed(r, k, p, s, h, f, t, m) ==
    /\ m = r <=> t # "none"
    /\ h # "none" => m = r
    /\ p \in Early => h = "none" /\ s = "none"
    /\ p \in {"idle", "lookup"} => m = NoRecord
    /\ p = "waiting" => m \in Requests \ {r}
    /\ p = "admit" => k \in Attach
    /\ p \in {"admit", "dispatch", "running"} => m = r
    /\ p = "running" <=> h = "running"
    /\ p = "running" => s = "none"
    /\ p = "respond" => s = "succeeded"
    /\ p \in Late => s # "none"
    /\ f # "none" => p \in {"flushing", "done"}
    /\ t = "succeeded" => h = "ok"
    /\ t = "failed" => h # "ok" /\ p \in Late
    /\ t = "unknown" => k \in Attach \/ p \in Late
    /\ p \in Late /\ s # "succeeded" /\ m = r => t # "pending"
Here(r) == Placed(r, cmd[r], pc[r], reply[r], handler[r], frame[r], status[r], record[r])
ControlInv == \A r \in Requests : Here(r)

\* Both maps point to existing records filed under their own identity.
MapInv ==
    /\ \A i \in RecordIDs : idempotency[i] \in Requests =>
        IDOf(idempotency[i]) = i /\ status[idempotency[i]] # "none"
    /\ \A i \in CommandIDs : commands[i] \in Requests =>
        CommandIDOf[cmd[commands[i]]] = i /\ status[commands[i]] # "none"
    /\ \A c \in Conns : \A r \in collected[c] : cmd[r] \in Attach /\ on[r] = c

\* A record leaves the maps in two ways only: a refused admission, whose handler
\* never runs, and the release of its connection.
RetainInv == \A r \in Requests : status[r] # "none" =>
    \/ idempotency[IDOf(r)] = r
    \/ cmd[r] \in Attach /\ conn[on[r]] = "released"
    \/ cmd[r] \in Attach /\ handler[r] = "none" /\ pc[r] \in Late

\* A reply speaks of a record whose handler cannot change any more.
ReplyInv == \A r \in Requests :
    /\ reply[r] = "succeeded" => record[r] \in Requests /\ handler[record[r]] = "ok"
    /\ reply[r] = "failed" => /\ record[r] \in Requests /\ handler[record[r]] # "ok"
                              /\ pc[record[r]] \in Late

\* A request shares a record only with the command the record is for.
RecordInv == \A r \in Requests : record[r] \in Requests =>
    status[record[r]] # "none" /\ cmd[record[r]] = cmd[r]

\* A connection released after its requests drained gets no record afterwards.
DrainInv == \A c \in Conns : drained[c] =>
    /\ conn[c] \in {"releasing", "released"}
    /\ \A r \in Requests : on[r] = c =>
        /\ pc[r] = "idle" \/ pc[r] \in Late
        /\ cmd[r] \in Attach /\ Retained(r) => conn[c] = "releasing" /\ r \in collected[c]

LedgerInv ==
    /\ ControlTypeOK /\ ControlInv /\ MapInv /\ RetainInv /\ ReplyInv /\ RecordInv
    /\ DrainInv /\ MapsAgree /\ AtMostOnce

\* The definitions most leaves need.
USE Zenon DEF Owner, Early, Late

Handlers == {"none", "running", "ok", "error"}
Frames == {"none", "queued", "writing", "written", "skipped", "broken"}

\* What a step keeps: commands stay on their connections, a connection that is being
\* released stays so, records are neither created nor forgotten, a goroutine whose
\* handler is over stays so, and one not yet started starts on an open connection.
Fixed ==
    /\ UNCHANGED <<cmd, on, collected, drained>>
    /\ \A c \in Conns : conn[c] \in {"releasing", "released"} => conn'[c] = conn[c]
Steady == \A q \in Requests :
    /\ status'[q] = "none" <=> status[q] = "none"
    /\ pc[q] \in Late => pc'[q] \in Late /\ handler'[q] = handler[q]
Behaved == \A q \in Requests :
    /\ pc[q] \in Late => pc'[q] \in Late
    /\ pc[q] = "idle" => pc'[q] = "idle" \/ pc'[q] \in Late \/ conn[on[q]] = "open"
NoneStarted == \A q \in Requests : handler'[q] # "none" => handler[q] # "none"
NoneRetained == \A q \in Requests : Retained(q)' => Retained(q) \/ pc[q] = "lookup"

\* A step may end contexts, and open connections.
Beside ==
    /\ ctx' \in [Requests -> {"live", "expired", "cancelled"}]
    /\ conn' \in [Conns -> {"open", "cancelled", "releasing", "released"}]
    /\ Fixed

\* One goroutine moves to p, its reply, handler and frame to s, h and f, its record
\* to t, and it refers to record m from now on; a connection that is being released
\* stays so.
MovesTo(r, p, s, h, f, t, m) ==
    /\ pc' = [pc EXCEPT ![r] = p]
    /\ reply' = [reply EXCEPT ![r] = s]
    /\ handler' = [handler EXCEPT ![r] = h]
    /\ frame' = [frame EXCEPT ![r] = f]
    /\ status' = [status EXCEPT ![r] = t]
    /\ record' = [record EXCEPT ![r] = m]
    /\ Beside
Moves(r, p, s, h, f, t) ==
    MovesTo(r, p, s, h, f, t, record[r]) /\ UNCHANGED <<idempotency, commands>>

\* A record is settled once.  One that is not bound to a connection starts its
\* handler, ends it, and is settled by what the handler did.
Advances(r, h, t) ==
    /\ status[r] \in Final => t = status[r]
    /\ \/ cmd[r] \in Attach
       \/ t = status[r] /\ h = handler[r]
       \/ /\ status[r] = "pending" /\ t = "pending"
          /\ \/ handler[r] = "none" /\ h = "running"
             \/ handler[r] = "running" /\ h = "ok"
       \/ /\ status[r] = "pending"
          /\ h \in IF handler[r] = "running" THEN {"ok", "error"} ELSE {handler[r]}
          /\ t \in IF h = "ok" THEN {"succeeded", "unknown"} ELSE {"failed"}

\* What such a move must respect.
LegalTo(r, p, s, h, f, t, m) ==
    /\ p \in PCs /\ s \in Replies /\ h \in Handlers /\ f \in Frames /\ t \in Statuses
    /\ m \in Requests \cup {NoRecord}
    /\ Placed(r, cmd[r], p, s, h, f, t, m)
    /\ status[r] # "none" => t # "none"
    /\ pc[r] \in Late => p \in Late /\ h = handler[r]
    /\ s = "succeeded" => m \in Requests /\ handler'[m] = "ok"
    /\ s = "failed" => m \in Requests /\ handler'[m] # "ok" /\ pc'[m] \in Late
    /\ m \in Requests \ {r} => status[m] # "none" /\ cmd[m] = cmd[r]
Keeps(r, p, t) ==
    /\ t = "none" <=> status[r] = "none"
    /\ pc[r] = "idle" => p \in Late \/ p = "idle" \/ conn[on[r]] = "open"
Legal(r, p, s, h, f, t) ==
    /\ LegalTo(r, p, s, h, f, t, record[r]) /\ Keeps(r, p, t) /\ Advances(r, h, t)
    /\ h = "none" <=> handler[r] = "none"

\* finalizeMutation writes a record's status once.
Settle(r, s) == IF status[r] = "pending" THEN s ELSE status[r]
Settles(r, s) ==
    /\ status' = [status EXCEPT ![r] = Settle(r, s)]
    /\ UNCHANGED <<idempotency, commands>>
MapsKept == UNCHANGED <<status, idempotency, commands>>
Removed(r) ==
    /\ status' = [status EXCEPT ![r] = "failed"]
    /\ idempotency' = Forget(idempotency, IDOf(r), r)
    /\ commands' = Forget(commands, CommandIDOf[cmd[r]], r)

\* What a step may do to the records and the maps: nothing, advance one record,
\* insert one, remove a refused one, or delete those of a released connection.
Quiet == UNCHANGED <<status, handler, idempotency, commands>>
Advance(r) ==
    /\ UNCHANGED <<idempotency, commands>>
    /\ \A q \in Requests \ {r} : status'[q] = status[q] /\ handler'[q] = handler[q]
    /\ Advances(r, handler'[r], status'[r])
Insert(r) ==
    /\ idempotency[IDOf(r)] = NoRecord /\ commands[CommandIDOf[cmd[r]]] = NoRecord
    /\ idempotency' = [idempotency EXCEPT ![IDOf(r)] = r]
    /\ commands' = [commands EXCEPT ![CommandIDOf[cmd[r]]] = r]
    /\ status[r] = "none" /\ status' = [status EXCEPT ![r] = "pending"]
    /\ UNCHANGED handler
Delete(c) ==
    /\ idempotency' = [i \in RecordIDs |-> IF idempotency[i] \in collected[c] THEN NoRecord ELSE idempotency[i]]
    /\ commands' = [i \in CommandIDs |-> IF commands[i] \in collected[c] THEN NoRecord ELSE commands[i]]
    /\ conn'[c] = "released"
    /\ UNCHANGED <<status, handler>>
Changes ==
    \/ Quiet
    \/ \E r \in Requests : \/ Advance(r) \/ Insert(r)
                           \/ cmd[r] \in Attach /\ status[r] = "pending" /\ Removed(r) /\ UNCHANGED handler
    \/ \E c \in Conns : Delete(c)

\* What is shown of every step.
Sound == LedgerInv' /\ UNCHANGED <<cmd, on>> /\ Changes

\* The types of the variables a goroutine's step changes, one fact each.
LEMMA Types ==
    ASSUME LedgerInv
    PROVE  /\ pc \in [Requests -> PCs] /\ reply \in [Requests -> Replies]
           /\ handler \in [Requests -> Handlers] /\ frame \in [Requests -> Frames]
           /\ status \in [Requests -> Statuses]
           /\ ctx \in [Requests -> {"live", "expired", "cancelled"}]
           /\ conn \in [Conns -> {"open", "cancelled", "releasing", "released"}]
           /\ on \in [Requests -> Conns] /\ cmd \in [Requests -> Commands]
           /\ record \in [Requests -> Requests \cup {NoRecord}]
BY DEF LedgerInv, ControlTypeOK, Handlers, Frames

\* What is known of one goroutine.
LEMMA At ==
    ASSUME LedgerInv, NEW r \in Requests
    PROVE  Here(r)
BY DEF LedgerInv, ControlInv

\* A handler that succeeded belongs to a goroutine that is past it.
LEMMA OkLate ==
    ASSUME LedgerInv, NEW r \in Requests, handler[r] = "ok"
    PROVE  pc[r] \in Late
BY SMTT(30), At, Types DEF Here, Placed, PCs

\* A failed record belongs to a goroutine whose handler did not succeed.
LEMMA FailedLate ==
    ASSUME LedgerInv, NEW r \in Requests, status[r] = "failed"
    PROVE  handler[r] # "ok" /\ pc[r] \in Late
BY At DEF Here, Placed

\* Leaving a variable alone is a move to where it is.
LEMMA Same ==
    ASSUME LedgerInv, NEW r \in Requests
    PROVE  /\ pc = [pc EXCEPT ![r] = pc[r]]
           /\ reply = [reply EXCEPT ![r] = reply[r]]
           /\ handler = [handler EXCEPT ![r] = handler[r]]
           /\ frame = [frame EXCEPT ![r] = frame[r]]
           /\ status = [status EXCEPT ![r] = status[r]]
           /\ record = [record EXCEPT ![r] = record[r]]
BY Types

\* finalizeMutation that retains the record settles it in the maps.
LEMMA FinalizeKeeps ==
    ASSUME LedgerInv, NEW r \in Requests, NEW s, FinalizeMutation(r, s, FALSE)
    PROVE  Settles(r, s)
BY Same DEF FinalizeMutation, Settles, Settle, ledger

\* finalizeMutation that forgets the record removes it while it is pending.
LEMMA FinalizeRemoves ==
    ASSUME NEW r, FinalizeMutation(r, "failed", TRUE)
    PROVE  (MapsKept /\ status[r] # "pending") \/ (status[r] = "pending" /\ Removed(r))
BY DEF FinalizeMutation, Removed, MapsKept, ledger

\* A step of one goroutine leaves commands, contexts and connections alone.
LEMMA BesideKept ==
    ASSUME LedgerInv, UNCHANGED <<cmd, on, ctx, conn, collected, drained>>
    PROVE  Beside
BY Types DEF Beside, Fixed

\* Going on with the reply as it is, and going on with a reply, as moves.
LEMMA Arrives ==
    ASSUME LedgerInv, NEW r \in Requests, NEW p, Goto(r, p), Beside,
           UNCHANGED <<record, reply, frame, handler>>
    PROVE  /\ MapsKept => Moves(r, p, reply[r], handler[r], frame[r], status[r])
           /\ \A t : Settles(r, t) => Moves(r, p, reply[r], handler[r], frame[r], Settle(r, t))
BY Same DEF Moves, MovesTo, MapsKept, Settles, Goto

\* A goroutine that goes on with a new reply, as a move.
LEMMA Answers ==
    ASSUME LedgerInv, NEW r \in Requests, NEW p, NEW s, Goto(r, p), Beside,
           reply' = [reply EXCEPT ![r] = s], UNCHANGED <<record, frame, handler>>
    PROVE  /\ MapsKept => Moves(r, p, s, handler[r], frame[r], status[r])
           /\ \A t : Settles(r, t) => Moves(r, p, s, handler[r], frame[r], Settle(r, t))
BY Same DEF Moves, MovesTo, MapsKept, Settles, Goto

\* A step that leaves the ledger alone leaves the maps alone.
LEMMA LedgerKept == ASSUME UNCHANGED ledger PROVE MapsKept
BY DEF ledger, MapsKept

\* The identities of a request are keys of the two maps.
LEMMA IDTypes ==
    ASSUME ControlTypeOK, NEW r \in Requests
    PROVE  IDOf(r) \in RecordIDs /\ CommandIDOf[cmd[r]] \in CommandIDs
BY DEF ControlTypeOK, IDOf, MutationRecordID, RecordIDs, CommandIDs, Keys

\* Two requests with the identity of an attach are on its connection.
LEMMA AttachID ==
    ASSUME ControlTypeOK, NEW r \in Requests, NEW q \in Requests,
           IDOf(r) = IDOf(q), cmd[q] \in Attach
    PROVE  on[r] = on[q]
BY SMTT(30), LedgerAssumption DEF ControlTypeOK, IDOf, MutationRecordID

\* A step that keeps both maps and creates no record keeps what is known of them.
LEMMA MapsStep ==
    ASSUME LedgerInv, UNCHANGED <<idempotency, commands>>, Fixed, Steady, Behaved
    PROVE  MapInv' /\ RetainInv' /\ MapsAgree' /\ DrainInv'
<1>1. /\ \A q \in Requests : IDOf(q)' = IDOf(q)
      /\ NoneRetained
    BY DEF Fixed, Steady, IDOf, Retained, NoneRetained
<1>2. MapInv'
    BY SMTT(30), <1>1 DEF LedgerInv, ControlTypeOK, MapInv, Fixed, Steady
<1>3. RetainInv'
    BY SMTT(30), <1>1 DEF LedgerInv, ControlTypeOK, RetainInv, Fixed, Steady
<1>4. MapsAgree'
    BY SMTT(30), <1>1 DEF LedgerInv, MapsAgree, Fixed, Steady
<1>5. DrainInv'
    BY SMTT(30), <1>1, Types DEF LedgerInv, DrainInv, Fixed, Behaved, NoneRetained
<1>. QED BY <1>2, <1>3, <1>4, <1>5

\* A connection that drained stays as it was collected.
LEMMA DrainStep ==
    ASSUME LedgerInv, Fixed, Behaved, NoneRetained
    PROVE  DrainInv'
BY SMTT(30), Types DEF LedgerInv, DrainInv, Fixed, Behaved, NoneRetained

\* A step that starts no handler keeps AtMostOnce.
LEMMA OnceStep ==
    ASSUME LedgerInv, UNCHANGED <<cmd, on>>, NoneStarted
    PROVE  AtMostOnce'
<1>1. \A q \in Requests : IDOf(q)' = IDOf(q)
    BY DEF IDOf
<1>. QED BY <1>1 DEF LedgerInv, AtMostOnce, NoneStarted

\* A step that leaves the goroutines and their records alone.
LEMMA StillStep ==
    ASSUME LedgerInv, UNCHANGED <<pc, cmd, on, record, reply, frame, handler, status>>
    PROVE  ControlInv' /\ ReplyInv' /\ RecordInv' /\ AtMostOnce'
<1>1. ControlInv' /\ ReplyInv' /\ RecordInv'
    BY DEF LedgerInv, ControlInv, Here, ReplyInv, RecordInv
<1>2. NoneStarted
    BY DEF NoneStarted
<1>. QED BY <1>1, <1>2, OnceStep

\* The empty ledger satisfies the invariant.
LEMMA InitInv == Init => LedgerInv
<1> SUFFICES ASSUME Init PROVE LedgerInv
    OBVIOUS
<1> USE LedgerAssumption
<1>1. ControlTypeOK
    BY DEF Init, ControlTypeOK, PCs, Statuses, Replies
<1>2. ControlInv
    BY DEF Init, ControlInv, Here, Placed
<1>3. MapInv /\ RetainInv /\ ReplyInv /\ RecordInv /\ DrainInv /\ MapsAgree /\ AtMostOnce
    BY <1>1 DEF Init, ControlTypeOK, MapInv, RetainInv, ReplyInv, RecordInv, DrainInv,
             MapsAgree, AtMostOnce
<1>. QED BY <1>1, <1>2, <1>3 DEF LedgerInv

\* A legal move of one goroutine preserves what does not concern the maps.
LEMMA LocalInv ==
    ASSUME LedgerInv, NEW r \in Requests, NEW p, NEW s, NEW h, NEW f, NEW t, NEW m,
           MovesTo(r, p, s, h, f, t, m), LegalTo(r, p, s, h, f, t, m),
           idempotency' \in [RecordIDs -> Requests \cup {NoRecord}],
           commands' \in [CommandIDs -> Requests \cup {NoRecord}]
    PROVE  ControlTypeOK' /\ ControlInv' /\ ReplyInv' /\ RecordInv'
<1>1. /\ \A q \in Requests : pc'[q] = IF q = r THEN p ELSE pc[q]
      /\ \A q \in Requests : reply'[q] = IF q = r THEN s ELSE reply[q]
      /\ \A q \in Requests : handler'[q] = IF q = r THEN h ELSE handler[q]
      /\ \A q \in Requests : frame'[q] = IF q = r THEN f ELSE frame[q]
    BY Types DEF MovesTo
<1>2. /\ \A q \in Requests : status'[q] = IF q = r THEN t ELSE status[q]
      /\ \A q \in Requests : record'[q] = IF q = r THEN m ELSE record[q]
    BY Types DEF MovesTo
<1>3. UNCHANGED <<cmd, on, collected, drained>>
    BY DEF MovesTo, Beside, Fixed
<1>4. ControlTypeOK'
  <2>1. /\ pc' \in [Requests -> PCs] /\ reply' \in [Requests -> Replies]
        /\ handler' \in [Requests -> Handlers] /\ frame' \in [Requests -> Frames]
        /\ status' \in [Requests -> Statuses]
        /\ record' \in [Requests -> Requests \cup {NoRecord}]
      BY Types DEF MovesTo, LegalTo
  <2>. QED BY <1>3, <2>1 DEF MovesTo, Beside, LedgerInv, ControlTypeOK, Handlers, Frames
<1>5. ControlInv'
    BY <1>1, <1>2, <1>3 DEF LegalTo, LedgerInv, ControlInv, Here
<1>6. ReplyInv'
  <2>1. \A x \in Requests : pc[x] \in Late => pc'[x] \in Late /\ handler'[x] = handler[x]
      BY <1>1 DEF LegalTo
  <2>2. \A x \in Requests : handler[x] = "ok" => pc[x] \in Late
      BY OkLate
  <2>3. ASSUME NEW q \in Requests PROVE ReplyInv!(q)'
    <3>1. CASE q = r
        BY <3>1, <1>1, <1>2 DEF LegalTo
    <3>2. CASE q # r
        BY SMTT(30), <3>2, <2>1, <2>2, <1>1, <1>2 DEF LedgerInv, ReplyInv
    <3>. QED BY <3>1, <3>2
  <2>. QED BY <2>3 DEF ReplyInv
<1>7. RecordInv'
  <2>1. m = r => t # "none"
      BY DEF LegalTo, Placed
  <2>. QED BY SMTT(30), <1>2, <1>3, <2>1 DEF LedgerInv, RecordInv, LegalTo
<1>. QED BY <1>4, <1>5, <1>6, <1>7

\* A legal move creates and forgets no record, and takes no goroutine back from its late steps.
LEMMA MoveSteady ==
    ASSUME LedgerInv, NEW r \in Requests, NEW p, NEW s, NEW h, NEW f, NEW t, NEW m,
           MovesTo(r, p, s, h, f, t, m), LegalTo(r, p, s, h, f, t, m), Keeps(r, p, t)
    PROVE  Fixed /\ Steady /\ Behaved
<1>1. /\ \A q \in Requests : pc'[q] = IF q = r THEN p ELSE pc[q]
      /\ \A q \in Requests : handler'[q] = IF q = r THEN h ELSE handler[q]
      /\ \A q \in Requests : status'[q] = IF q = r THEN t ELSE status[q]
    BY Types DEF MovesTo
<1>2. Steady /\ Behaved
    BY <1>1 DEF LegalTo, Keeps, Steady, Behaved
<1>. QED BY <1>2 DEF MovesTo, Beside

\* A legal move that leaves the maps alone preserves all but AtMostOnce, for which it
\* matters whether a handler is started.
LEMMA MoveBooks ==
    ASSUME LedgerInv, NEW r \in Requests, NEW p, NEW s, NEW h, NEW f, NEW t, NEW m,
           MovesTo(r, p, s, h, f, t, m), LegalTo(r, p, s, h, f, t, m), Keeps(r, p, t),
           UNCHANGED <<idempotency, commands>>
    PROVE  /\ ControlTypeOK' /\ ControlInv' /\ ReplyInv' /\ RecordInv'
           /\ MapInv' /\ RetainInv' /\ MapsAgree' /\ DrainInv'
<1>1. /\ idempotency' \in [RecordIDs -> Requests \cup {NoRecord}]
      /\ commands' \in [CommandIDs -> Requests \cup {NoRecord}]
    BY DEF LedgerInv, ControlTypeOK
<1>2. ControlTypeOK' /\ ControlInv' /\ ReplyInv' /\ RecordInv'
    BY <1>1, LocalInv
<1>3. Fixed /\ Steady /\ Behaved
    BY MoveSteady
<1>. QED BY <1>2, <1>3, MapsStep

\* A legal move of one goroutine, with the maps left alone, preserves the invariant.
LEMMA MoveInv ==
    ASSUME LedgerInv, NEW r \in Requests, NEW p, NEW s, NEW h, NEW f, NEW t,
           Moves(r, p, s, h, f, t), Legal(r, p, s, h, f, t)
    PROVE  Sound
<1>1. /\ MovesTo(r, p, s, h, f, t, record[r]) /\ UNCHANGED <<idempotency, commands>>
      /\ LegalTo(r, p, s, h, f, t, record[r]) /\ Keeps(r, p, t)
    BY DEF Moves, Legal
<1>2. /\ ControlTypeOK' /\ ControlInv' /\ ReplyInv' /\ RecordInv'
      /\ MapInv' /\ RetainInv' /\ MapsAgree' /\ DrainInv'
    BY <1>1, MoveBooks
<1>3. /\ \A q \in Requests : handler'[q] = IF q = r THEN h ELSE handler[q]
      /\ \A q \in Requests : status'[q] = IF q = r THEN t ELSE status[q]
      /\ UNCHANGED <<cmd, on>>
    BY <1>1, Types DEF MovesTo, Beside, Fixed
<1>4. NoneStarted /\ Advance(r)
    BY <1>1, <1>3 DEF NoneStarted, Advance, Legal
<1>5. AtMostOnce'
    BY <1>3, <1>4, OnceStep
<1>. QED BY <1>2, <1>3, <1>4, <1>5 DEF LedgerInv, Sound, Changes

\* A step that leaves the ledger and the goroutines alone.
LEMMA QuietInv ==
    ASSUME LedgerInv, MapsKept,
           UNCHANGED <<pc, cmd, on, record, reply, frame, handler, collected, drained>>,
           ctx' \in [Requests -> {"live", "expired", "cancelled"}],
           conn' \in [Conns -> {"open", "cancelled", "releasing", "released"}],
           \A c \in Conns : conn[c] \in {"releasing", "released"} => conn'[c] = conn[c]
    PROVE  Sound
<1>1. ControlTypeOK'
    BY DEF LedgerInv, ControlTypeOK, MapsKept
<1>2. Fixed /\ Steady /\ Behaved
    BY DEF Fixed, Steady, Behaved, MapsKept
<1>3. MapInv' /\ RetainInv' /\ MapsAgree' /\ DrainInv'
    BY <1>2, MapsStep DEF MapsKept
<1>4. ControlInv' /\ ReplyInv' /\ RecordInv' /\ AtMostOnce'
    BY StillStep DEF MapsKept
<1>. QED BY <1>1, <1>3, <1>4 DEF LedgerInv, Sound, Changes, Quiet, MapsKept

-----------------------------------------------------------------------------
(* Answers without a handler, and what the peers do *)

\* A goroutine answers without having run a handler.
LEMMA AnswerMove ==
    ASSUME LedgerInv, NEW r \in Requests, pc[r] \in Early,
           NEW s \in Replies \ {"none", "succeeded"}, NEW t \in {status[r], Settle(r, "failed")},
           Moves(r, "enqueue", s, handler[r], frame[r], t), handler' = handler,
           Owner(r) => t # "pending",
           s = "failed" => \/ Owner(r)
                           \/ status[record[r]] = "failed" /\ record[r] \in Requests
    PROVE  Sound
<1> DEFINE m == record[r]
<1>1. Here(r)
    BY At
<1>2. /\ handler[r] = "none" /\ frame[r] = "none" /\ reply[r] = "none"
      /\ status[r] \notin {"succeeded", "failed"} /\ m \in Requests \cup {NoRecord}
      /\ m = r <=> status[r] # "none"
      /\ pc[r] = "idle" => m = NoRecord
    BY <1>1, Types DEF Here, Placed
<1>3. /\ t \in Statuses /\ (t = "none" <=> status[r] = "none") /\ t # "succeeded"
      /\ Advances(r, handler[r], t)
    BY <1>2, Types DEF Settle, Statuses, Advances, Final
<1>4. \A q \in Requests : pc'[q] = IF q = r THEN "enqueue" ELSE pc[q]
    BY Types DEF Moves, MovesTo
<1>5. s = "failed" => m \in Requests /\ handler'[m] # "ok" /\ pc'[m] \in Late
    BY <1>2, <1>4, FailedLate
<1>6. Placed(r, cmd[r], "enqueue", s, handler[r], frame[r], t, m)
    BY <1>2, <1>3 DEF Placed
<1>7. LegalTo(r, "enqueue", s, handler[r], frame[r], t, m)
  <2>1. /\ "enqueue" \in PCs /\ "none" \in Handlers /\ "none" \in Frames
        /\ m \in Requests \ {r} => status[m] # "none" /\ cmd[m] = cmd[r]
      BY DEF LedgerInv, RecordInv, PCs, Handlers, Frames
  <2>. QED BY <1>2, <1>3, <1>5, <1>6, <2>1 DEF LegalTo
<1>8. Legal(r, "enqueue", s, handler[r], frame[r], t)
    BY <1>3, <1>7 DEF Legal, Keeps
<1>. QED BY <1>8, MoveInv

\* An answer without a handler preserves the invariant.
LEMMA AnswerStep ==
    ASSUME LedgerInv, NEW r \in Requests, pc[r] \in Early,
           NEW s \in Replies \ {"none", "succeeded"}, ReplyWith(r, s), Beside,
           UNCHANGED <<record, frame, handler>>,
           \/ MapsKept /\ (Owner(r) => status[r] # "pending")
           \/ Settles(r, "failed"),
           s = "failed" => \/ Owner(r)
                           \/ status[record[r]] = "failed" /\ record[r] \in Requests
    PROVE  Sound
<1>1. Goto(r, "enqueue") /\ reply' = [reply EXCEPT ![r] = s]
    BY DEF ReplyWith
<1>2. CASE MapsKept /\ (Owner(r) => status[r] # "pending")
  <2>1. Moves(r, "enqueue", s, handler[r], frame[r], status[r])
      BY <1>1, <1>2, Answers
  <2>. QED BY <1>2, <2>1, AnswerMove
<1>3. CASE Settles(r, "failed")
  <2>1. Moves(r, "enqueue", s, handler[r], frame[r], Settle(r, "failed"))
      BY <1>1, <1>3, Answers
  <2>2. Settle(r, "failed") # "pending"
      BY DEF Settle
  <2>. QED BY <2>1, <2>2, AnswerMove
<1>. QED BY <1>2, <1>3

\* A connection changes phase here only from open to cancelled.
LEMMA CancelKeeps ==
    ASSUME LedgerInv, NEW c \in Conns, conn' = CancelConn(c) \/ UNCHANGED conn
    PROVE  /\ conn' \in [Conns -> {"open", "cancelled", "releasing", "released"}]
           /\ \A d \in Conns : conn[d] \in {"releasing", "released"} => conn'[d] = conn[d]
BY Types DEF CancelConn

\* A cancellation or an expired deadline preserves the invariant.
LEMMA ContextStep ==
    ASSUME LedgerInv, NEW r \in Requests, Cancel(r) \/ Expire(r)
    PROVE  Sound
BY LedgerKept, QuietInv, Types DEF Cancel, Expire, connection

\* The end of a connection preserves the invariant.
LEMMA DisconnectStep ==
    ASSUME LedgerInv, NEW c \in Conns, Disconnect(c)
    PROVE  Sound
BY LedgerKept, QuietInv, CancelKeeps, Types DEF Disconnect, request

-----------------------------------------------------------------------------
(* Handlers and what follows them *)

\* A request that arrives preserves the invariant.
LEMMA ReceiveStep ==
    ASSUME LedgerInv, NEW r \in Requests, Receive(r)
    PROVE  Sound
<1>1. pc[r] = "idle" /\ record[r] = NoRecord /\ ~Owner(r) /\ Here(r)
    BY SMTT(30), At, LedgerAssumption DEF Receive, Here, Placed
<1>2. /\ Beside /\ MapsKept /\ UNCHANGED <<record, frame, handler>>
      /\ \/ conn[on[r]] = "open" /\ Goto(r, "lookup") /\ UNCHANGED reply
         \/ ReplyWith(r, "context")
    BY SMTT(30), LedgerKept, Types DEF Receive, Beside, Fixed, connection
<1>3. CASE conn[on[r]] = "open" /\ Goto(r, "lookup") /\ UNCHANGED reply
  <2>1. Moves(r, "lookup", reply[r], handler[r], frame[r], status[r])
      BY <1>2, <1>3, Arrives
  <2>2. Placed(r, cmd[r], "lookup", reply[r], handler[r], frame[r], status[r], record[r])
      BY <1>1 DEF Here, Placed
  <2>3. reply[r] = "none" /\ "lookup" \in PCs
      BY <1>1 DEF Here, Placed, PCs
  <2>4. Legal(r, "lookup", reply[r], handler[r], frame[r], status[r])
      BY <1>1, <1>3, <2>2, <2>3, Types, LedgerAssumption DEF Legal, LegalTo, Keeps, Advances
  <2>. QED BY <2>1, <2>4, MoveInv
<1>4. CASE ReplyWith(r, "context")
  <2>1. "context" \in Replies
      BY DEF Replies
  <2>. QED BY <1>1, <1>2, <1>4, <2>1, AnswerStep
<1>. QED BY <1>2, <1>3, <1>4

\* A handler returns: its record, unless released before, is pending.
LEMMA HandlerMove ==
    ASSUME LedgerInv, NEW r \in Requests, pc[r] = "running",
           NEW p \in {"respond", "enqueue"}, NEW s \in {"succeeded", "failed", "unknown"},
           NEW h \in {"ok", "error"}, NEW t,
           Moves(r, p, s, h, frame[r], t),
           s = "failed" <=> h = "error",
           t = IF p = "respond" THEN status[r] ELSE Settle(r, s),
           p = "respond" <=> s = "succeeded"
    PROVE  Sound
<1>1. /\ record[r] = r /\ frame[r] = "none" /\ handler[r] = "running"
      /\ status[r] = "pending" \/ (status[r] = "unknown" /\ cmd[r] \in Attach)
    BY SMTT(30), At, Types DEF Here, Placed, Statuses
<1>2. handler'[r] = h /\ pc'[r] = p
    BY Types DEF Moves, MovesTo
<1>3. t # "none" /\ Advances(r, h, t)
    BY <1>1 DEF Settle, Advances, Final
<1>4. Placed(r, cmd[r], p, s, h, frame[r], t, record[r])
    BY <1>1 DEF Placed, Settle
<1>5. /\ p \in PCs /\ s \in Replies /\ h \in Handlers /\ t \in Statuses
      /\ frame[r] \in Frames
    BY <1>1, Types DEF Settle, PCs, Replies, Handlers, Statuses
<1>6. LegalTo(r, p, s, h, frame[r], t, record[r])
    BY <1>1, <1>2, <1>3, <1>4, <1>5 DEF LegalTo
<1>7. Legal(r, p, s, h, frame[r], t)
    BY <1>1, <1>3, <1>6 DEF Legal, Keeps
<1>. QED BY <1>7, MoveInv

\* A handler that returns an error preserves the invariant.
LEMMA HandlerFailsStep ==
    ASSUME LedgerInv, NEW r \in Requests, HandlerFails(r)
    PROVE  Sound
<1>1. /\ UNCHANGED <<cmd, on, ctx, record, frame, conn, collected, drained>>
      /\ pc[r] = "running"
      /\ \/ /\ handler' = [handler EXCEPT ![r] = "error"]
            /\ Settles(r, "failed") /\ ReplyWith(r, "failed")
         \/ /\ handler' = [handler EXCEPT ![r] = "ok"]
            /\ Settles(r, "unknown") /\ ReplyWith(r, "unknown")
    BY FinalizeKeeps DEF HandlerFails, connection
<1>2. \/ Moves(r, "enqueue", "failed", "error", frame[r], Settle(r, "failed"))
      \/ Moves(r, "enqueue", "unknown", "ok", frame[r], Settle(r, "unknown"))
    BY <1>1, BesideKept, Same DEF Settles, Moves, MovesTo, Goto, ReplyWith
<1>. QED BY <1>1, <1>2, HandlerMove

\* A handler that returns a result preserves the invariant.
LEMMA HandlerSucceedsStep ==
    ASSUME LedgerInv, NEW r \in Requests, HandlerSucceeds(r)
    PROVE  Sound
<1>1. /\ UNCHANGED <<cmd, on, ctx, record, frame, conn, collected, drained>>
      /\ pc[r] = "running"
      /\ handler' = [handler EXCEPT ![r] = "ok"]
      /\ \/ Settles(r, "unknown") /\ ReplyWith(r, "unknown")
         \/ reply' = [reply EXCEPT ![r] = "succeeded"] /\ Goto(r, "respond") /\ MapsKept
    BY FinalizeKeeps, LedgerKept DEF HandlerSucceeds, connection
<1>2. \/ Moves(r, "enqueue", "unknown", "ok", frame[r], Settle(r, "unknown"))
      \/ Moves(r, "respond", "succeeded", "ok", frame[r], status[r])
    BY <1>1, BesideKept, Same DEF Settles, MapsKept, Moves, MovesTo, Goto, ReplyWith
<1>. QED BY <1>1, <1>2, HandlerMove

\* A handler starts only for a record that is still in the map under its identity,
\* so no other handler of that identity has started.
LEMMA FirstHandler ==
    ASSUME LedgerInv, NEW r \in Requests, pc[r] = "dispatch", conn[on[r]] = "open",
           NEW q \in Requests, handler[q] # "none", IDOf(q) = IDOf(r), q # r
    PROVE  FALSE
<1>1. /\ status[r] # "none" /\ status[q] # "none"
      /\ handler[q] # "none" /\ pc[r] \notin Late
    BY At DEF Here, Placed
<1>2. idempotency[IDOf(r)] = r
    BY <1>1 DEF LedgerInv, RetainInv
<1>3. cmd[q] \in Attach /\ conn[on[q]] = "released"
    BY <1>1, <1>2 DEF LedgerInv, RetainInv
<1>4. on[r] = on[q]
    BY <1>3, AttachID DEF LedgerInv
<1>. QED BY <1>3, <1>4

\* The dispatch, or its refusal, preserves the invariant.
LEMMA DispatchStep ==
    ASSUME LedgerInv, NEW r \in Requests, Dispatch(r)
    PROVE  Sound
<1>1. /\ UNCHANGED <<cmd, on, ctx, conn, collected, drained>> /\ UNCHANGED <<record, frame>>
      /\ pc[r] = "dispatch"
      /\ \/ Settles(r, "failed") /\ ReplyWith(r, "failed") /\ UNCHANGED handler
         \/ /\ conn[on[r]] = "open" /\ handler' = [handler EXCEPT ![r] = "running"]
            /\ Goto(r, "running") /\ MapsKept /\ UNCHANGED reply
    BY LedgerKept, FinalizeKeeps DEF Dispatch, CommandDone, connection
<1>2. /\ record[r] = r /\ status[r] # "none" /\ handler[r] = "none"
      /\ reply[r] = "none" /\ frame[r] = "none" /\ Beside
      /\ status[r] \in {"pending", "unknown"} /\ (status[r] = "unknown" => cmd[r] \in Attach)
    BY SMTT(30), <1>1, At, BesideKept, Types DEF Here, Placed, Statuses
<1>3. CASE Settles(r, "failed") /\ ReplyWith(r, "failed") /\ UNCHANGED handler
  <2>1. "failed" \in Replies
      BY DEF Replies
  <2>. QED BY <1>1, <1>2, <1>3, <2>1, AnswerStep
<1>4. CASE /\ conn[on[r]] = "open" /\ handler' = [handler EXCEPT ![r] = "running"]
           /\ Goto(r, "running") /\ MapsKept /\ UNCHANGED reply
  <2>1. MovesTo(r, "running", reply[r], "running", frame[r], status[r], record[r])
      BY <1>1, <1>2, <1>4, Same DEF MovesTo, MapsKept, Goto
  <2>2. Placed(r, cmd[r], "running", reply[r], "running", frame[r], status[r], record[r])
      BY <1>2 DEF Placed
  <2>3. /\ LegalTo(r, "running", reply[r], "running", frame[r], status[r], record[r])
        /\ Keeps(r, "running", status[r])
      BY <1>1, <1>2, <2>2, Types DEF LegalTo, Keeps, PCs, Handlers
  <2>4. /\ ControlTypeOK' /\ ControlInv' /\ ReplyInv' /\ RecordInv'
        /\ MapInv' /\ RetainInv' /\ MapsAgree' /\ DrainInv'
      BY <1>4, <2>1, <2>3, MoveBooks DEF MapsKept
  <2>5. \A q \in Requests : handler'[q] = IF q = r THEN "running" ELSE handler[q]
      BY <1>4, Types
  <2>6. Advance(r)
      BY <1>2, <1>4, <2>5 DEF Advance, Advances, MapsKept, Final
  <2>7. AtMostOnce'
    <3>1. \A q \in Requests : IDOf(q)' = IDOf(q)
        BY <1>1 DEF IDOf
    <3>2. \A q \in Requests : handler[q] # "none" /\ IDOf(q) = IDOf(r) => q = r
        BY <1>1, <1>4, FirstHandler
    <3>. QED BY SMTT(30), <2>5, <3>1, <3>2 DEF LedgerInv, AtMostOnce
  <2>. QED BY <1>1, <2>4, <2>6, <2>7 DEF LedgerInv, Sound, Changes
<1>. QED BY <1>1, <1>3, <1>4

\* finalizeMutation and the deferred rollback as moves of the record.
LEMMA RollbackKeeps ==
    ASSUME LedgerInv, NEW r \in Requests, Rollback(r)
    PROVE  MapsKept \/ (record[r] = r /\ reply[r] = "succeeded" /\ Settles(r, "unknown"))
BY FinalizeKeeps, LedgerKept DEF Rollback

\* Steps of a goroutine whose handler is over: its reply stays, or becomes an error
\* after the rollback, and its record is settled at most once more.
LEMMA LateMove ==
    ASSUME LedgerInv, NEW r \in Requests, pc[r] \in Late,
           NEW p \in Late, NEW s \in {reply[r], "context"}, NEW f \in Frames,
           NEW t \in {status[r], Settle(r, "unknown"), Settle(r, "succeeded")},
           Moves(r, p, s, handler[r], f, t), handler' = handler,
           p = "respond" => s = "succeeded",
           f # "none" => p \in {"flushing", "done"},
           t # status[r] => handler[r] = "ok",
           s # "succeeded" /\ Owner(r) => t # "pending"
    PROVE  Sound
<1>1. \A q \in Requests : pc'[q] = IF q = r THEN p ELSE pc[q]
    BY Types DEF Moves, MovesTo
<1>2. /\ s = "succeeded" => record[r] \in Requests /\ handler'[record[r]] = "ok"
      /\ s = "failed" => record[r] \in Requests /\ handler'[record[r]] # "ok" /\ pc'[record[r]] \in Late
    BY <1>1 DEF LedgerInv, ReplyInv
<1>3. /\ t \in Statuses /\ (t = "none" <=> status[r] = "none")
      /\ Advances(r, handler[r], t)
    BY Types DEF Settle, Statuses, Advances, Final
<1>4. s \in Replies /\ s # "none"
    BY SMTT(30), At, Types DEF Here, Placed, Replies
<1>5. Placed(r, cmd[r], p, s, handler[r], f, t, record[r])
    BY SMTT(30), <1>4, At DEF Here, Placed, Settle
<1>6. LegalTo(r, p, s, handler[r], f, t, record[r])
  <2>1. /\ p \in PCs /\ handler[r] \in Handlers /\ record[r] \in Requests \cup {NoRecord}
        /\ record[r] \in Requests \ {r} => status[record[r]] # "none" /\ cmd[record[r]] = cmd[r]
      BY Types DEF PCs, LedgerInv, RecordInv
  <2>. QED BY <1>2, <1>3, <1>4, <1>5, <2>1 DEF LegalTo
<1>7. Legal(r, p, s, handler[r], f, t)
    BY <1>3, <1>6 DEF Legal, Keeps
<1>. QED BY <1>7, MoveInv

\* Building the response, or the rollback instead, preserves the invariant.
LEMMA RespondStep ==
    ASSUME LedgerInv, NEW r \in Requests, Respond(r)
    PROVE  Sound
<1>1. /\ pc[r] = "respond" /\ reply[r] = "succeeded" /\ frame[r] = "none"
      /\ Owner(r) => handler[r] = "ok"
    BY SMTT(30), At DEF Respond, Here, Placed, LedgerInv, ReplyInv
<1>2. /\ UNCHANGED <<cmd, on, ctx, conn, collected, drained>> /\ UNCHANGED <<record, frame, handler>>
      /\ \/ record[r] = r /\ ReplyWith(r, "context") /\ Settles(r, "unknown")
         \/ record[r] # r /\ ReplyWith(r, "context") /\ MapsKept
         \/ Goto(r, "enqueue") /\ UNCHANGED reply /\ MapsKept
    BY FinalizeKeeps, LedgerKept DEF Respond, connection
<1>3. Beside /\ frame[r] \in Frames
    BY <1>2, BesideKept, Types
<1>4. CASE record[r] = r /\ ReplyWith(r, "context") /\ Settles(r, "unknown")
  <2>1. Moves(r, "enqueue", "context", handler[r], frame[r], Settle(r, "unknown"))
      BY <1>2, <1>3, <1>4, Answers DEF ReplyWith
  <2>2. Settle(r, "unknown") # "pending"
      BY DEF Settle
  <2>. QED BY <1>1, <1>2, <1>3, <1>4, <2>1, <2>2, LateMove
<1>5. CASE record[r] # r /\ ReplyWith(r, "context") /\ MapsKept
  <2>1. Moves(r, "enqueue", "context", handler[r], frame[r], status[r])
      BY <1>2, <1>3, <1>5, Answers DEF ReplyWith
  <2>. QED BY <1>1, <1>2, <1>3, <1>5, <2>1, LateMove
<1>6. CASE Goto(r, "enqueue") /\ UNCHANGED reply /\ MapsKept
  <2>1. Moves(r, "enqueue", reply[r], handler[r], frame[r], status[r])
      BY <1>2, <1>3, <1>6, Arrives
  <2>. QED BY <1>1, <1>2, <1>3, <2>1, LateMove
<1>. QED BY <1>2, <1>4, <1>5, <1>6

\* The last step of a goroutine, with the record as it is or settled.
LEMMA DoneMove ==
    ASSUME LedgerInv, NEW r \in Requests, pc[r] \in {"enqueue", "flushing"},
           Goto(r, "done"), Beside, UNCHANGED <<record, reply, frame, handler>>,
           \/ MapsKept
           \/ /\ Owner(r) /\ reply[r] = "succeeded"
              /\ Settles(r, "unknown") \/ Settles(r, "succeeded")
    PROVE  Sound
<1>1. /\ frame[r] \in Frames /\ "done" \in Late
      /\ reply[r] # "succeeded" /\ Owner(r) => status[r] # "pending"
      /\ Owner(r) /\ reply[r] = "succeeded" => handler[r] = "ok"
    BY SMTT(30), Types, At DEF LedgerInv, ReplyInv, Here, Placed
<1>2. CASE MapsKept
  <2>1. Moves(r, "done", reply[r], handler[r], frame[r], status[r])
      BY <1>2, Arrives
  <2>. QED BY <1>1, <2>1, LateMove
<1>3. CASE Owner(r) /\ reply[r] = "succeeded" /\ Settles(r, "unknown")
  <2>1. Moves(r, "done", reply[r], handler[r], frame[r], Settle(r, "unknown"))
      BY <1>3, Arrives
  <2>. QED BY <1>1, <1>3, <2>1, LateMove
<1>4. CASE Owner(r) /\ reply[r] = "succeeded" /\ Settles(r, "succeeded")
  <2>1. Moves(r, "done", reply[r], handler[r], frame[r], Settle(r, "succeeded"))
      BY <1>4, Arrives
  <2>. QED BY <1>1, <1>4, <2>1, LateMove
<1>. QED BY <1>2, <1>3, <1>4

\* Queueing the response, or failing to, preserves the invariant.
LEMMA EnqueueStep ==
    ASSUME LedgerInv, NEW r \in Requests, Enqueue(r)
    PROVE  Sound
<1>1. /\ pc[r] = "enqueue" /\ UNCHANGED <<record, reply, handler>>
      /\ UNCHANGED <<cmd, on, ctx, conn, collected, drained>>
      /\ \/ frame' = [frame EXCEPT ![r] = "queued"] /\ Goto(r, "flushing") /\ MapsKept
         \/ Rollback(r) /\ Goto(r, "done") /\ UNCHANGED frame
    BY LedgerKept DEF Enqueue, connection
<1>2. Beside
    BY <1>1, BesideKept
<1>3. CASE frame' = [frame EXCEPT ![r] = "queued"] /\ Goto(r, "flushing") /\ MapsKept
  <2>1. Moves(r, "flushing", reply[r], handler[r], "queued", status[r])
      BY <1>1, <1>2, <1>3, Same DEF Moves, MovesTo, MapsKept, Goto
  <2>2. reply[r] # "succeeded" /\ Owner(r) => status[r] # "pending"
      BY <1>1, At DEF Here, Placed
  <2>3. "queued" \in Frames
      BY DEF Frames
  <2>. QED BY <1>1, <2>1, <2>2, <2>3, LateMove
<1>4. CASE Rollback(r) /\ Goto(r, "done") /\ UNCHANGED frame
    BY <1>1, <1>2, <1>4, RollbackKeeps, DoneMove
<1>. QED BY <1>1, <1>3, <1>4

\* A flushed response preserves the invariant.
LEMMA FlushOKStep ==
    ASSUME LedgerInv, NEW r \in Requests, FlushOK(r)
    PROVE  Sound
<1>1. /\ pc[r] = "flushing" /\ Goto(r, "done") /\ UNCHANGED <<record, reply, frame, handler>>
      /\ UNCHANGED <<cmd, on, ctx, conn, collected, drained>>
      /\ MapsKept \/ (record[r] = r /\ reply[r] = "succeeded" /\ Settles(r, "succeeded"))
    BY FinalizeKeeps, LedgerKept DEF FlushOK, connection
<1>. QED BY <1>1, BesideKept, DoneMove

\* A response that is lost preserves the invariant.
LEMMA FlushLostStep ==
    ASSUME LedgerInv, NEW r \in Requests, FlushFailed(r) \/ FlushAbandoned(r)
    PROVE  Sound
<1>1. /\ pc[r] = "flushing" /\ Rollback(r) /\ Goto(r, "done")
      /\ conn' = CancelConn(on[r]) \/ UNCHANGED conn
      /\ UNCHANGED <<cmd, on, ctx, collected, drained>> /\ UNCHANGED <<record, reply, frame, handler>>
    BY DEF FlushFailed, FlushAbandoned
<1>2. Beside
  <2>1. on[r] \in Conns
      BY Types
  <2>. QED BY <1>1, <2>1, CancelKeeps, Types DEF Beside, Fixed
<1>. QED BY <1>1, <1>2, RollbackKeeps, DoneMove

\* The writer moves a goroutine's frame only.
LEMMA WriterStep ==
    ASSUME LedgerInv, NEW r \in Requests, WriterTake(r) \/ WriterDone(r)
    PROVE  Sound
<1>1. PICK f \in Frames \ {"none"} :
          Moves(r, pc[r], reply[r], handler[r], f, status[r]) /\ frame[r] # "none" /\ handler' = handler
    BY LedgerKept, BesideKept, Same DEF WriterTake, WriterDone, Moves, MovesTo, MapsKept, Frames, connection
<1>2. pc[r] \in {"flushing", "done"}
    BY <1>1, At DEF Here, Placed
<1>3. reply[r] # "succeeded" /\ Owner(r) => status[r] # "pending"
    BY <1>2, At DEF Here, Placed
<1>. QED BY <1>1, <1>2, <1>3, LateMove DEF Settle

-----------------------------------------------------------------------------
(* Records in the maps *)

\* A refused admission takes the record out of both maps before any handler ran.
LEMMA RemovedStep ==
    ASSUME LedgerInv, NEW r \in Requests, pc[r] = "admit", status[r] = "pending",
           Removed(r), ReplyWith(r, "failed"), Beside, UNCHANGED <<record, frame, handler>>
    PROVE  Sound
<1>1. \A q \in Requests : IDOf(q) \in RecordIDs /\ CommandIDOf[cmd[q]] \in CommandIDs
    BY IDTypes DEF LedgerInv
<1>2. /\ \A i \in RecordIDs : idempotency'[i] =
             IF i = IDOf(r) /\ idempotency[i] = r THEN NoRecord ELSE idempotency[i]
      /\ idempotency' \in [RecordIDs -> Requests \cup {NoRecord}]
    BY <1>1 DEF LedgerInv, ControlTypeOK, Removed, Forget
<1>3. /\ \A i \in CommandIDs : commands'[i] =
             IF i = CommandIDOf[cmd[r]] /\ commands[i] = r THEN NoRecord ELSE commands[i]
      /\ commands' \in [CommandIDs -> Requests \cup {NoRecord}]
    BY <1>1 DEF LedgerInv, ControlTypeOK, Removed, Forget
<1>4. /\ \A q \in Requests : status'[q] = IF q = r THEN "failed" ELSE status[q]
      /\ \A q \in Requests : pc'[q] = IF q = r THEN "enqueue" ELSE pc[q]
    BY Types DEF Removed, ReplyWith, Goto
<1>5. /\ handler[r] = "none" /\ frame[r] = "none" /\ record[r] = r /\ cmd[r] \in Attach
    BY At DEF Here, Placed
<1>6. /\ \A q \in Requests : IDOf(q)' = IDOf(q)
      /\ UNCHANGED <<cmd, on>> /\ Fixed /\ Behaved /\ NoneStarted
    BY <1>4 DEF Beside, Fixed, Behaved, NoneStarted, IDOf
<1>7. ControlTypeOK' /\ ControlInv' /\ ReplyInv' /\ RecordInv'
  <2>1. MovesTo(r, "enqueue", "failed", handler[r], frame[r], "failed", record[r])
      BY Same DEF MovesTo, Removed, ReplyWith, Goto
  <2>2. Placed(r, cmd[r], "enqueue", "failed", handler[r], frame[r], "failed", record[r])
      BY <1>5 DEF Placed
  <2>3. LegalTo(r, "enqueue", "failed", handler[r], frame[r], "failed", record[r])
      BY <1>4, <1>5, <2>2, Types DEF LegalTo, PCs, Statuses, Replies
  <2>. QED BY <1>2, <1>3, <2>1, <2>3, LocalInv
<1>8. MapInv'
  <2>1. /\ \A i \in RecordIDs : idempotency'[i] \in Requests => idempotency'[i] = idempotency[i]
        /\ \A i \in CommandIDs : commands'[i] \in Requests => commands'[i] = commands[i]
        /\ \A q \in Requests : status[q] # "none" => status'[q] # "none"
      BY <1>2, <1>3, <1>4, LedgerAssumption
  <2>2. UNCHANGED collected
      BY DEF Beside, Fixed
  <2>. QED BY SMTT(30), <1>6, <2>1, <2>2 DEF LedgerInv, MapInv, ControlTypeOK
<1>9. RetainInv'
  <2>1. \A c \in Conns : conn[c] = "released" => conn'[c] = conn[c]
      BY DEF Beside, Fixed
  <2>. QED BY SMTT(30), <1>1, <1>2, <1>4, <1>5, <1>6, <2>1, Types DEF LedgerInv, RetainInv
<1>10. DrainInv'
  <2>1. \A q \in Requests : /\ idempotency'[IDOf(q)] = q => idempotency[IDOf(q)] = q
                            /\ status'[q] # "none" => status[q] # "none"
      BY <1>1, <1>2, <1>4, LedgerAssumption
  <2>2. NoneRetained
      BY <1>6, <2>1 DEF Retained, NoneRetained
  <2>. QED BY <1>6, <2>2, DrainStep
<1>11. MapsAgree'
    BY SMTT(30), <1>1, <1>2, <1>3, <1>4, <1>6, LedgerAssumption DEF LedgerInv, MapsAgree
<1>12. AtMostOnce'
    BY <1>6, OnceStep
<1>. QED BY <1>5, <1>6, <1>7, <1>8, <1>9, <1>10, <1>11, <1>12 DEF LedgerInv, Sound, Changes

\* The admission of a new record, or its refusal, preserves the invariant.
LEMMA AdmitStep ==
    ASSUME LedgerInv, NEW r \in Requests, Admit(r)
    PROVE  Sound
<1>1. /\ pc[r] = "admit" /\ UNCHANGED <<record, frame, handler>>
      /\ UNCHANGED <<cmd, on, ctx, conn, collected, drained>>
      /\ \/ MapsKept /\ Goto(r, "dispatch") /\ UNCHANGED reply
         \/ MapsKept /\ status[r] # "pending" /\ ReplyWith(r, "failed")
         \/ status[r] = "pending" /\ Removed(r) /\ ReplyWith(r, "failed")
    BY LedgerKept, FinalizeRemoves DEF Admit, connection
<1>2. Beside /\ Owner(r)
    BY <1>1, BesideKept, At DEF Here, Placed
<1>3. CASE MapsKept /\ Goto(r, "dispatch") /\ UNCHANGED reply
  <2>1. Moves(r, "dispatch", reply[r], handler[r], frame[r], status[r])
      BY <1>1, <1>2, <1>3, Arrives
  <2>2. Placed(r, cmd[r], "dispatch", reply[r], handler[r], frame[r], status[r], record[r])
      BY <1>1, At DEF Here, Placed
  <2>3. reply[r] = "none" /\ "dispatch" \in PCs
      BY <1>1, At DEF Here, Placed, PCs
  <2>4. Legal(r, "dispatch", reply[r], handler[r], frame[r], status[r])
      BY <1>1, <1>2, <2>2, <2>3, Types DEF Legal, LegalTo, Keeps, Advances
  <2>. QED BY <2>1, <2>4, MoveInv
<1>4. CASE MapsKept /\ status[r] # "pending" /\ ReplyWith(r, "failed")
  <2>1. "failed" \in Replies
      BY DEF Replies
  <2>. QED BY <1>1, <1>2, <1>4, <2>1, AnswerStep
<1>. QED BY <1>1, <1>2, <1>3, <1>4, RemovedStep

\* A new record enters both maps at once, under identities that were free.
LEMMA LookupInsertStep ==
    ASSUME LedgerInv, NEW r \in Requests, LookupInsert(r)
    PROVE  Sound
<1>1. \A q \in Requests : IDOf(q) \in RecordIDs /\ CommandIDOf[cmd[q]] \in CommandIDs
    BY IDTypes DEF LedgerInv
<1>2. PICK p \in {"admit", "dispatch"} :
        /\ UNCHANGED <<cmd, on, ctx, conn, collected, drained>> /\ UNCHANGED <<reply, frame, handler>>
        /\ pc[r] = "lookup" /\ idempotency[IDOf(r)] = NoRecord /\ commands[CommandIDOf[cmd[r]]] = NoRecord
        /\ idempotency' = [idempotency EXCEPT ![IDOf(r)] = r]
        /\ commands' = [commands EXCEPT ![CommandIDOf[cmd[r]]] = r]
        /\ status' = [status EXCEPT ![r] = "pending"]
        /\ record' = [record EXCEPT ![r] = r]
        /\ Goto(r, p) /\ (p = "admit" => cmd[r] \in Attach)
    BY DEF LookupInsert, Found, Colliding, connection
<1>3. /\ \A i \in RecordIDs : idempotency'[i] = IF i = IDOf(r) THEN r ELSE idempotency[i]
      /\ \A i \in CommandIDs : commands'[i] = IF i = CommandIDOf[cmd[r]] THEN r ELSE commands[i]
      /\ idempotency' \in [RecordIDs -> Requests \cup {NoRecord}]
      /\ commands' \in [CommandIDs -> Requests \cup {NoRecord}]
    BY <1>1, <1>2 DEF LedgerInv, ControlTypeOK
<1>4. /\ \A q \in Requests : status'[q] = IF q = r THEN "pending" ELSE status[q]
      /\ \A q \in Requests : pc'[q] = IF q = r THEN p ELSE pc[q]
    BY <1>2, Types DEF Goto
<1>5. /\ record[r] = NoRecord /\ status[r] = "none"
      /\ handler[r] = "none" /\ reply[r] = "none" /\ frame[r] = "none"
    BY SMTT(30), <1>2, At, LedgerAssumption DEF Here, Placed
<1>6. /\ \A q \in Requests : IDOf(q)' = IDOf(q)
      /\ Beside /\ Fixed /\ Behaved /\ NoneStarted /\ Insert(r)
  <2>1. Beside /\ \A q \in Requests : IDOf(q)' = IDOf(q)
      BY <1>2, BesideKept DEF IDOf
  <2>2. Behaved /\ NoneStarted
      BY <1>2, <1>4 DEF Behaved, NoneStarted
  <2>. QED BY <1>2, <1>5, <2>1, <2>2 DEF Beside, Insert
<1>7. ControlTypeOK' /\ ControlInv' /\ ReplyInv' /\ RecordInv'
  <2>1. MovesTo(r, p, reply[r], handler[r], frame[r], "pending", r)
      BY <1>2, <1>6, Same DEF MovesTo, Goto
  <2>2. Placed(r, cmd[r], p, reply[r], handler[r], frame[r], "pending", r)
      BY <1>2, <1>5 DEF Placed
  <2>3. LegalTo(r, p, reply[r], handler[r], frame[r], "pending", r)
      BY <1>2, <1>5, <2>2, Types DEF LegalTo, PCs, Statuses
  <2>. QED BY <1>3, <2>1, <2>3, LocalInv
<1>8. MapInv'
  <2>1. ASSUME NEW i \in RecordIDs, idempotency'[i] \in Requests
        PROVE  IDOf(idempotency'[i]) = i /\ status'[idempotency'[i]] # "none"
      BY SMTT(30), <1>3, <1>4, <2>1 DEF LedgerInv, MapInv
  <2>2. ASSUME NEW i \in CommandIDs, commands'[i] \in Requests
        PROVE  CommandIDOf[cmd[commands'[i]]] = i /\ status'[commands'[i]] # "none"
      BY SMTT(30), <1>3, <1>4, <2>2 DEF LedgerInv, MapInv
  <2>3. /\ \A c \in Conns : \A q \in collected'[c] : cmd'[q] \in Attach /\ on'[q] = c
        /\ cmd' = cmd /\ on' = on
      BY <1>2 DEF LedgerInv, MapInv
  <2>. QED BY <1>6, <2>1, <2>2, <2>3 DEF MapInv, IDOf
<1>9. RetainInv'
    BY SMTT(30), <1>1, <1>2, <1>3, <1>4, <1>6, LedgerAssumption DEF LedgerInv, RetainInv
<1>10. DrainInv'
  <2>1. NoneRetained
      BY SMTT(30), <1>1, <1>2, <1>3, <1>4, <1>6 DEF Retained, NoneRetained
  <2>. QED BY <1>6, <2>1, DrainStep
<1>11. MapsAgree'
    BY SMTT(30), <1>1, <1>2, <1>3, <1>4, <1>6, LedgerAssumption DEF LedgerInv, MapsAgree, MapInv
<1>12. UNCHANGED <<cmd, on>> /\ AtMostOnce'
    BY <1>2, <1>6, OnceStep
<1>. QED BY <1>6, <1>7, <1>8, <1>9, <1>10, <1>11, <1>12 DEF LedgerInv, Sound, Changes

\* A request shares the record it finds, or conflicts with it.
LEMMA LookupFoundStep ==
    ASSUME LedgerInv, NEW r \in Requests, LookupFound(r)
    PROVE  Sound
<1> DEFINE prior == idempotency[IDOf(r)]
<1>1. /\ pc[r] = "lookup" /\ prior # NoRecord /\ MapsKept
      /\ UNCHANGED <<cmd, on, ctx, conn, collected, drained>> /\ UNCHANGED <<frame, handler>>
      /\ \/ ReplyWith(r, "conflict") /\ UNCHANGED record
         \/ /\ cmd[prior] = cmd[r] /\ Goto(r, "waiting")
            /\ record' = [record EXCEPT ![r] = prior] /\ UNCHANGED reply
    BY LedgerKept DEF LookupFound, Found, connection
<1>2. prior \in Requests /\ status[prior] # "none"
    BY SMTT(30), <1>1, IDTypes DEF LedgerInv, ControlTypeOK, MapInv
<1> HIDE DEF prior
<1>3. /\ record[r] = NoRecord /\ status[r] = "none" /\ handler[r] = "none"
      /\ reply[r] = "none" /\ frame[r] = "none" /\ prior # r /\ Beside
    BY SMTT(30), <1>1, <1>2, At, BesideKept, LedgerAssumption DEF Here, Placed
<1>4. CASE ReplyWith(r, "conflict") /\ UNCHANGED record
  <2>1. "conflict" \in Replies /\ ~Owner(r)
      BY <1>3, LedgerAssumption DEF Replies
  <2>. QED BY <1>1, <1>3, <1>4, <2>1, AnswerStep
<1>5. CASE /\ cmd[prior] = cmd[r] /\ Goto(r, "waiting")
           /\ record' = [record EXCEPT ![r] = prior] /\ UNCHANGED reply
  <2>1. MovesTo(r, "waiting", reply[r], handler[r], frame[r], status[r], prior)
      BY <1>1, <1>3, <1>5, Same DEF MovesTo, MapsKept, Goto
  <2>2. Placed(r, cmd[r], "waiting", reply[r], handler[r], frame[r], status[r], prior)
      BY <1>2, <1>3 DEF Placed
  <2>3. /\ LegalTo(r, "waiting", reply[r], handler[r], frame[r], status[r], prior)
        /\ Keeps(r, "waiting", status[r])
      BY <1>1, <1>2, <1>3, <1>5, <2>2, Types DEF LegalTo, Keeps, PCs
  <2>4. /\ ControlTypeOK' /\ ControlInv' /\ ReplyInv' /\ RecordInv'
        /\ MapInv' /\ RetainInv' /\ MapsAgree' /\ DrainInv'
      BY <1>1, <2>1, <2>3, MoveBooks DEF MapsKept
  <2>5. UNCHANGED <<cmd, on>> /\ NoneStarted /\ Quiet
      BY <1>1 DEF NoneStarted, Quiet, MapsKept
  <2>. QED BY <2>4, <2>5, OnceStep DEF LedgerInv, Sound, Changes
<1>. QED BY <1>1, <1>4, <1>5

\* A request refused for a conflict or a full ledger preserves the invariant.
LEMMA LookupRefuseStep ==
    ASSUME LedgerInv, NEW r \in Requests, LookupRefuse(r)
    PROVE  Sound
<1>1. PICK s \in {"conflict", "exhausted"} :
        /\ pc[r] = "lookup" /\ ReplyWith(r, s) /\ MapsKept
        /\ UNCHANGED <<cmd, on, ctx, conn, collected, drained>> /\ UNCHANGED <<record, frame, handler>>
    BY LedgerKept DEF LookupRefuse, connection
<1>2. s \in Replies /\ ~Owner(r) /\ Beside
    BY SMTT(30), <1>1, At, BesideKept, LedgerAssumption DEF Here, Placed, Replies
<1>. QED BY <1>1, <1>2, AnswerStep

\* The wait for the record of another request preserves the invariant.
LEMMA WaitPriorStep ==
    ASSUME LedgerInv, NEW r \in Requests, WaitPrior(r)
    PROVE  Sound
<1>1. pc[r] = "waiting" /\ record[r] \in Requests /\ ~Owner(r)
    BY At DEF WaitPrior, Here, Placed
<1>2. /\ MapsKept
      /\ UNCHANGED <<cmd, on, ctx, conn, collected, drained>> /\ UNCHANGED <<record, frame, handler>>
      /\ \/ /\ status[record[r]] = "succeeded" /\ Goto(r, "respond")
            /\ reply' = [reply EXCEPT ![r] = "succeeded"]
         \/ \E s \in {"failed", "unknown", "context"} :
                ReplyWith(r, s) /\ (s = "failed" => status[record[r]] = "failed")
    BY LedgerKept DEF WaitPrior, connection
<1>3. Beside
    BY <1>2, BesideKept
<1>4. CASE status[record[r]] = "succeeded" /\ Goto(r, "respond") /\ reply' = [reply EXCEPT ![r] = "succeeded"]
  <2>1. Moves(r, "respond", "succeeded", handler[r], frame[r], status[r])
      BY <1>2, <1>3, <1>4, Answers
  <2>2. handler'[record[r]] = "ok"
      BY <1>1, <1>2, <1>4, At DEF Here, Placed
  <2>3. Placed(r, cmd[r], "respond", "succeeded", handler[r], frame[r], status[r], record[r])
      BY <1>1, At DEF Here, Placed
  <2>4. /\ "respond" \in PCs /\ "succeeded" \in Replies
        /\ status[record[r]] # "none" /\ cmd[record[r]] = cmd[r]
      BY <1>1 DEF PCs, Replies, LedgerInv, RecordInv
  <2>5. Legal(r, "respond", "succeeded", handler[r], frame[r], status[r])
      BY <2>2, <2>3, <2>4, <1>1, Types DEF Legal, LegalTo, Keeps, Advances
  <2>. QED BY <2>1, <2>5, MoveInv
<1>5. ASSUME NEW s \in {"failed", "unknown", "context"}, ReplyWith(r, s),
             s = "failed" => status[record[r]] = "failed"
      PROVE  Sound
  <2>1. s \in Replies
      BY DEF Replies
  <2>. QED BY <1>1, <1>2, <1>3, <1>5, <2>1, AnswerStep
<1>. QED BY <1>2, <1>4, <1>5

\* A final answer of command.get_result changes with no step, and is forgotten only
\* when the connection of its record is released.
LEMMA ResultKept ==
    ASSUME LedgerInv, Sound, NEW i \in CommandIDs, CommandResult(i) \in Final
    PROVE  \/ CommandResult(i)' = CommandResult(i)
           \/ /\ CommandResult(i)' = "unavailable"
              /\ conn'[on[commands[i]]] = "released"
<1> DEFINE q == commands[i]
<1>1. q \in Requests /\ status[q] \in Final /\ q # NoRecord
    BY SMTT(30), LedgerAssumption DEF CommandResult, Final, LedgerInv, ControlTypeOK
<1>2. CommandResult(i) = status[q]
    BY <1>1 DEF CommandResult
<1>3. commands'[i] = q /\ status'[q] = status[q] => CommandResult(i)' = CommandResult(i)
    BY <1>1, <1>2 DEF CommandResult
<1>4. commands'[i] = NoRecord => CommandResult(i)' = "unavailable"
    BY DEF CommandResult
<1>5. commands \in [CommandIDs -> Requests \cup {NoRecord}] /\ status \in [Requests -> Statuses]
    BY DEF LedgerInv, ControlTypeOK
<1> HIDE DEF q
<1>6. CASE Quiet
    BY <1>1, <1>3, <1>6 DEF Quiet, q
<1>7. ASSUME NEW r \in Requests, Advance(r)
      PROVE  commands'[i] = q /\ status'[q] = status[q]
    BY <1>1, <1>7 DEF Advance, Advances, q
<1>8. ASSUME NEW r \in Requests, Insert(r)
      PROVE  commands'[i] = q /\ status'[q] = status[q]
    BY <1>1, <1>5, <1>8 DEF Insert, Final, q
<1>9. ASSUME NEW r \in Requests, status[r] = "pending", Removed(r)
      PROVE  commands'[i] = q /\ status'[q] = status[q]
    BY <1>1, <1>5, <1>9 DEF Removed, Forget, Final, q
<1>10. ASSUME NEW c \in Conns, Delete(c)
       PROVE  \/ commands'[i] = q /\ status'[q] = status[q]
              \/ commands'[i] = NoRecord /\ conn'[on[q]] = "released"
  <2>1. q \in collected[c] => on[q] = c
      BY DEF LedgerInv, MapInv
  <2>. QED BY <1>10, <2>1 DEF Delete, q
<1>. QED BY <1>3, <1>4, <1>6, <1>7, <1>8, <1>9, <1>10 DEF Sound, Changes, q

-----------------------------------------------------------------------------
(* releaseConnection *)

\* Settling a record of a connection that is released preserves the invariant.
LEMMA ReleaseFinalizeStep ==
    ASSUME LedgerInv, NEW c \in Conns, NEW r \in Requests, ReleaseFinalize(c, r)
    PROVE  Sound
<1>1. Moves(r, pc[r], reply[r], handler[r], frame[r], "unknown") /\ status[r] = "pending"
  <2>1. /\ UNCHANGED <<pc, cmd, on, ctx, record, reply, frame, handler, conn, collected, drained>>
        /\ status[r] = "pending" /\ Settles(r, "unknown")
      BY FinalizeKeeps DEF ReleaseFinalize, request, connection
  <2>. QED BY <2>1, BesideKept, Same DEF Settles, Settle, Moves, MovesTo
<1>2. handler' = handler /\ pc' = pc
    BY <1>1, Same DEF Moves, MovesTo
<1>3. /\ reply[r] = "succeeded" => record[r] \in Requests /\ handler'[record[r]] = "ok"
      /\ reply[r] = "failed" => record[r] \in Requests /\ handler'[record[r]] # "ok" /\ pc'[record[r]] \in Late
    BY <1>2 DEF LedgerInv, ReplyInv
<1>4. cmd[r] \in Attach
    BY DEF ReleaseFinalize, LedgerInv, MapInv
<1>5. Legal(r, pc[r], reply[r], handler[r], frame[r], "unknown")
  <2>1. /\ "unknown" \in Statuses /\ Advances(r, handler[r], "unknown")
        /\ record[r] \in Requests \ {r} => status[record[r]] # "none" /\ cmd[record[r]] = cmd[r]
      BY <1>1, <1>4 DEF Statuses, Advances, Final, LedgerInv, RecordInv
  <2>2. Placed(r, cmd[r], pc[r], reply[r], handler[r], frame[r], "unknown", record[r])
      BY <1>1, <1>4, At DEF Here, Placed
  <2>. QED BY <1>1, <1>3, <2>1, <2>2, Types DEF Legal, LegalTo, Keeps
<1>. QED BY <1>1, <1>5, MoveInv

\* Gathering the records of a connection preserves the invariant.
LEMMA ReleaseCollectStep ==
    ASSUME LedgerInv, NEW c \in Conns, ReleaseCollect(c)
    PROVE  Sound
<1> USE LedgerAssumption
<1> DEFINE S == {r \in Requests : Retained(r) /\ cmd[r] \in Attach /\ on[r] = c}
           empty == \A r \in Requests : on[r] = c => pc[r] \in {"idle", "done"}
<1>1. /\ MapsKept /\ UNCHANGED <<pc, cmd, on, ctx, record, reply, frame, handler>>
      /\ conn[c] = "cancelled" /\ conn' = [conn EXCEPT ![c] = "releasing"]
      /\ collected' = [collected EXCEPT ![c] = S]
      /\ drained' = [drained EXCEPT ![c] = empty]
    BY LedgerKept DEF ReleaseCollect, request
<1>2. /\ \A d \in Conns : conn'[d] = IF d = c THEN "releasing" ELSE conn[d]
      /\ \A d \in Conns : collected'[d] = IF d = c THEN S ELSE collected[d]
      /\ \A d \in Conns : drained'[d] = IF d = c THEN empty ELSE drained[d]
      /\ conn' \in [Conns -> {"open", "cancelled", "releasing", "released"}]
      /\ collected' \in [Conns -> SUBSET Requests] /\ drained' \in [Conns -> BOOLEAN]
    BY <1>1 DEF LedgerInv, ControlTypeOK
<1>3. \A q \in Requests : IDOf(q)' = IDOf(q) /\ (Retained(q)' <=> Retained(q))
    BY <1>1 DEF IDOf, Retained, MapsKept
<1>4. /\ \A q \in S : cmd[q] \in Attach /\ on[q] = c
      /\ \A q \in Requests : cmd[q] \in Attach /\ on[q] = c /\ Retained(q) => q \in S
      /\ empty => \A q \in Requests : on[q] = c => pc[q] = "idle" \/ pc[q] \in Late
    OBVIOUS
<1> HIDE DEF S, empty
<1>5. ControlTypeOK'
    BY <1>1, <1>2 DEF LedgerInv, ControlTypeOK, MapsKept
<1>6. MapInv'
    BY SMTT(30), <1>1, <1>2, <1>3, <1>4 DEF LedgerInv, MapInv, MapsKept, ControlTypeOK
<1>7. RetainInv' /\ MapsAgree'
    BY SMTT(30), <1>1, <1>2, <1>3, Types DEF LedgerInv, RetainInv, MapsAgree, MapsKept
<1>8. DrainInv'
    BY SMTT(30), <1>1, <1>2, <1>3, <1>4, Types DEF LedgerInv, DrainInv
<1>9. ControlInv' /\ ReplyInv' /\ RecordInv' /\ AtMostOnce'
    BY <1>1, StillStep DEF MapsKept
<1>. QED BY <1>1, <1>5, <1>6, <1>7, <1>8, <1>9 DEF LedgerInv, Sound, Changes, Quiet, MapsKept

\* The collected records leave both maps; a record whose connection is released is
\* the only one that may be missing from them.
LEMMA ReleaseDeleteStep ==
    ASSUME LedgerInv, NEW c \in Conns, ReleaseDelete(c)
    PROVE  Sound
<1> USE LedgerAssumption
<1>1. \A q \in Requests : IDOf(q) \in RecordIDs /\ CommandIDOf[cmd[q]] \in CommandIDs
    BY IDTypes DEF LedgerInv
<1>2. /\ UNCHANGED <<status, pc, cmd, on, ctx, record, reply, frame, handler, collected, drained>>
      /\ conn[c] = "releasing" /\ conn' = [conn EXCEPT ![c] = "released"]
      /\ idempotency' = [i \in RecordIDs |-> IF idempotency[i] \in collected[c] THEN NoRecord ELSE idempotency[i]]
      /\ commands' = [i \in CommandIDs |-> IF commands[i] \in collected[c] THEN NoRecord ELSE commands[i]]
    BY DEF ReleaseDelete, request
<1>3. /\ \A d \in Conns : conn'[d] = IF d = c THEN "released" ELSE conn[d]
      /\ conn' \in [Conns -> {"open", "cancelled", "releasing", "released"}]
      /\ idempotency' \in [RecordIDs -> Requests \cup {NoRecord}]
      /\ commands' \in [CommandIDs -> Requests \cup {NoRecord}]
    BY <1>2 DEF LedgerInv, ControlTypeOK
<1>4. \A q \in Requests : IDOf(q)' = IDOf(q)
    BY <1>2 DEF IDOf
<1>5. \A q \in collected[c] : q \in Requests /\ cmd[q] \in Attach /\ on[q] = c
    BY DEF LedgerInv, MapInv, ControlTypeOK
<1>6. ControlTypeOK'
    BY <1>2, <1>3 DEF LedgerInv, ControlTypeOK
<1>7. ControlInv' /\ ReplyInv' /\ RecordInv' /\ AtMostOnce'
    BY <1>2, StillStep
<1>8. MapInv'
    BY <1>1, <1>2, <1>4 DEF LedgerInv, MapInv
<1>9. RetainInv'
    BY SMTT(30), <1>1, <1>2, <1>3, <1>4, <1>5, Types DEF LedgerInv, RetainInv
<1>10. MapsAgree'
    BY <1>1, <1>2, <1>4, <1>5 DEF LedgerInv, MapsAgree
<1>11. DrainInv'
  <2>1. \A q \in Requests : Retained(q)' => Retained(q) /\ q \notin collected[c]
      BY <1>1, <1>2, <1>4 DEF Retained
  <2>. QED BY SMTT(30), <1>2, <1>3, <2>1 DEF LedgerInv, DrainInv
<1>12. Delete(c)
    BY <1>2, <1>3 DEF Delete
<1>. QED BY <1>2, <1>6, <1>7, <1>8, <1>9, <1>10, <1>11, <1>12 DEF LedgerInv, Sound, Changes

-----------------------------------------------------------------------------
(* Every step *)

\* Every step preserves the invariant and changes only what Changes allows.
LEMMA NextSound == LedgerInv /\ [Next]_vars => Sound
<1> SUFFICES ASSUME LedgerInv, [Next]_vars PROVE Sound
    OBVIOUS
<1>1. CASE UNCHANGED vars
    BY <1>1, LedgerKept, QuietInv, Types DEF vars, request, connection
<1>2. ASSUME NEW r \in Requests,
             \/ Receive(r) \/ Cancel(r) \/ Expire(r) \/ RequestStep(r)
             \/ HandlerFails(r) \/ HandlerSucceeds(r) \/ WriterTake(r) \/ WriterDone(r)
      PROVE  Sound
    BY <1>2, ReceiveStep, ContextStep, LookupFoundStep, LookupRefuseStep, LookupInsertStep,
       WaitPriorStep, AdmitStep, DispatchStep, HandlerFailsStep, HandlerSucceedsStep,
       RespondStep, EnqueueStep, FlushOKStep, FlushLostStep, WriterStep DEF RequestStep
<1>3. ASSUME NEW c \in Conns,
             \/ Disconnect(c) \/ ReleaseCollect(c) \/ ReleaseDelete(c)
             \/ \E r \in Requests : ReleaseFinalize(c, r)
      PROVE  Sound
    BY <1>3, DisconnectStep, ReleaseCollectStep, ReleaseDeleteStep, ReleaseFinalizeStep
<1>. QED BY <1>1, <1>2, <1>3 DEF Next

-----------------------------------------------------------------------------
(* The theorems *)

\* LedgerInv is inductive, so every reachable state of the ledger satisfies it.
THEOREM LedgerInvariant == Spec => []LedgerInv
<1>1. LedgerInv /\ [Next]_vars => LedgerInv'
    BY NextSound DEF Sound
<1>. QED BY <1>1, InitInv, PTL DEF Spec

\* The control state of the mutation path keeps its type.
THEOREM ControlTypes == Spec => []ControlTypeOK
<1>1. LedgerInv => ControlTypeOK
    BY DEF LedgerInv
<1>. QED BY <1>1, LedgerInvariant, PTL

\* executeMutation dispatches at most one handler per record ID, for any number of
\* requests, connections and retries.
THEOREM DispatchedAtMostOnce == Spec => []AtMostOnce
<1>1. LedgerInv => AtMostOnce
    BY DEF LedgerInv
<1>. QED BY <1>1, LedgerInvariant, PTL

\* What command.get_result can see is what a retry finds.
THEOREM MapsAlwaysAgree == Spec => []MapsAgree
<1>1. LedgerInv => MapsAgree
    BY DEF LedgerInv
<1>. QED BY <1>1, LedgerInvariant, PTL

\* releaseConnection leaves no record of a connection whose requests had drained.
THEOREM ReleasesAreComplete == Spec => []ReleaseComplete
<1>1. LedgerInv => ReleaseComplete
    BY DEF LedgerInv, DrainInv, ReleaseComplete
<1>. QED BY <1>1, LedgerInvariant, PTL

\* A response on the wire agrees with what the handler did.
THEOREM RepliesAreTruthful == Spec => []TruthfulReply
<1>1. LedgerInv => TruthfulReply
    BY FailedLate DEF LedgerInv, TruthfulReply, ReplyInv
<1>. QED BY <1>1, LedgerInvariant, PTL

\* processRequest rolls its record back before an error can be seen.
THEOREM ErrorsFollowRollback == Spec => []RollbackBeforeError
<1>1. LedgerInv => RollbackBeforeError
    BY DEF LedgerInv, RollbackBeforeError, ControlInv, Here, Placed
<1>. QED BY <1>1, LedgerInvariant, PTL

\* Retries of a command are never told both succeeded and failed.
THEOREM RepliesAreConsistent == Spec => []ConsistentReplies
<1>1. ASSUME LedgerInv, NEW r \in Requests, NEW q \in Requests,
             cmd[r] = cmd[q], cmd[r] \notin Attach, reply[r] = "succeeded",
             reply[q] = "failed"
      PROVE  FALSE
  <2>1. /\ record[r] \in Requests /\ handler[record[r]] = "ok"
        /\ record[q] \in Requests /\ handler[record[q]] # "ok"
      BY <1>1 DEF LedgerInv, ReplyInv
  <2>2. /\ cmd[record[r]] = cmd[r] /\ status[record[r]] # "none"
        /\ cmd[record[q]] = cmd[q] /\ status[record[q]] # "none"
      BY <1>1, <2>1 DEF LedgerInv, RecordInv
  <2>3. IDOf(record[r]) = IDOf(record[q])
      BY <1>1, <2>2 DEF IDOf, MutationRecordID
  <2>4. /\ idempotency[IDOf(record[r])] = record[r]
        /\ idempotency[IDOf(record[q])] = record[q]
      BY <1>1, <2>1, <2>2 DEF LedgerInv, RetainInv
  <2>. QED BY <2>1, <2>3, <2>4
<1>2. LedgerInv => ConsistentReplies
    BY <1>1 DEF ConsistentReplies
<1>. QED BY <1>2, LedgerInvariant, PTL

-----------------------------------------------------------------------------
(* The refinement *)

\* The effect on an identity that is not bound to a connection is what the handler of
\* the recorded request did.
Followed(i) == IF idempotency[i] = NoRecord THEN "none" ELSE handler[idempotency[i]]
EffectFollows == \A i \in GlobalIDs : EffectOf(i) = Followed(i)

\* An identity of a command that is not an attach belongs to no attach.
LEMMA GlobalID ==
    ASSUME ControlTypeOK, NEW i \in GlobalIDs
    PROVE  /\ i \in RecordIDs
           /\ \A r \in Requests : IDOf(r) = i => cmd[r] \notin Attach
BY SMTT(30), LedgerAssumption DEF ControlTypeOK, GlobalIDs, RecordIDs, Keys, IDOf, MutationRecordID

\* The effect under an identity is the one of the record in the map.
LEMMA Effects == LedgerInv => EffectFollows
<1> SUFFICES ASSUME LedgerInv, NEW i \in GlobalIDs PROVE EffectOf(i) = Followed(i)
    BY DEF EffectFollows
<1>1. \A r \in Dispatched(i) : r \in Requests /\ handler[r] # "none" /\ idempotency[i] = r
  <2> SUFFICES ASSUME NEW r \in Requests, handler[r] # "none", IDOf(r) = i PROVE idempotency[i] = r
      BY DEF Dispatched
  <2>1. status[r] # "none"
      BY At DEF Here, Placed
  <2>2. cmd[r] \notin Attach
      BY GlobalID DEF LedgerInv
  <2>. QED BY <2>1, <2>2 DEF LedgerInv, RetainInv
<1>2. CASE Dispatched(i) = {}
  <2>1. ASSUME idempotency[i] # NoRecord PROVE handler[idempotency[i]] = "none"
    <3>1. idempotency[i] \in Requests /\ IDOf(idempotency[i]) = i
        BY SMTT(30), <2>1, GlobalID DEF LedgerInv, ControlTypeOK, MapInv
    <3>. QED BY <1>2, <3>1 DEF Dispatched
  <2>. QED BY <1>2, <2>1 DEF EffectOf, Followed
<1>3. CASE Dispatched(i) # {}
  <2>1. (CHOOSE r \in Dispatched(i) : TRUE) \in Dispatched(i)
      BY <1>3
  <2>2. idempotency[i] # NoRecord
      BY <1>1, <2>1, LedgerAssumption
  <2>. QED BY <1>1, <1>3, <2>1, <2>2 DEF EffectOf, Followed
<1>. QED BY <1>2, <1>3

\* What a step does to the outcome of one identity: nothing, or a step of CommandOutcome.
Kept(i) == OutcomeOf(i)' = OutcomeOf(i) /\ Followed(i)' = Followed(i)
Shifted(i) ==
    \/ OutcomeOf(i) = "fresh" /\ OutcomeOf(i)' = "pending" /\ Followed(i)' = Followed(i)
    \/ /\ OutcomeOf(i) = "pending" /\ OutcomeOf(i)' = "pending"
       /\ \/ Followed(i) = "none" /\ Followed(i)' = "running"
          \/ Followed(i) = "running" /\ Followed(i)' = "ok"
    \/ /\ OutcomeOf(i) = "pending"
       /\ Followed(i)' \in IF Followed(i) = "running" THEN {"ok", "error"} ELSE {Followed(i)}
       /\ OutcomeOf(i)' \in IF Followed(i)' = "ok" THEN {"succeeded", "unknown"} ELSE {"failed"}
Shifts ==
    \/ \A j \in GlobalIDs : Kept(j)
    \/ \E i \in GlobalIDs : Shifted(i) /\ \A j \in GlobalIDs \ {i} : Kept(j)

\* A record under a global identity is that of a command that is not an attach.
LEMMA GlobalRecord ==
    ASSUME LedgerInv, NEW i \in GlobalIDs
    PROVE  /\ i \in RecordIDs /\ idempotency[i] \in Requests \cup {NoRecord}
           /\ idempotency[i] # NoRecord =>
                /\ IDOf(idempotency[i]) = i /\ status[idempotency[i]] # "none"
                /\ cmd[idempotency[i]] \notin Attach
<1>1. i \in RecordIDs /\ idempotency[i] \in Requests \cup {NoRecord}
    BY GlobalID DEF LedgerInv, ControlTypeOK
<1>2. idempotency[i] # NoRecord => IDOf(idempotency[i]) = i /\ status[idempotency[i]] # "none"
    BY <1>1 DEF LedgerInv, MapInv
<1>. QED BY <1>1, <1>2, GlobalID DEF LedgerInv

\* A sound step moves the abstract outcome of a command forward only.
LEMMA SoundShifts ==
    ASSUME LedgerInv, Sound
    PROVE  Shifts
<1> DEFINE at(i) == idempotency[i]
<1>1. \A i \in GlobalIDs :
        /\ i \in RecordIDs /\ at(i) \in Requests \cup {NoRecord}
        /\ at(i) # NoRecord => IDOf(at(i)) = i /\ status[at(i)] # "none" /\ cmd[at(i)] \notin Attach
    BY GlobalRecord
<1>2. ASSUME NEW i \in GlobalIDs, idempotency'[i] = at(i),
             at(i) # NoRecord => status'[at(i)] = status[at(i)] /\ handler'[at(i)] = handler[at(i)]
      PROVE  Kept(i)
    BY <1>2 DEF Kept, OutcomeOf, Followed
<1>3. CASE Quiet
    BY <1>2, <1>3 DEF Quiet, Shifts
<1>4. ASSUME NEW r \in Requests, Advance(r) PROVE Shifts
  <2>1. \A j \in GlobalIDs : at(j) # r => Kept(j)
      BY <1>1, <1>2, <1>4 DEF Advance
  <2>2. CASE \E i \in GlobalIDs : at(i) = r
    <3>1. PICK i \in GlobalIDs : at(i) = r
        BY <2>2
    <3>2. /\ cmd[r] \notin Attach /\ OutcomeOf(i) = status[r] /\ OutcomeOf(i)' = status'[r]
          /\ Followed(i) = handler[r] /\ Followed(i)' = handler'[r]
        BY <1>1, <1>4, <3>1, LedgerAssumption DEF OutcomeOf, Followed, Advance
    <3>3. \A j \in GlobalIDs \ {i} : Kept(j)
        BY <1>1, <2>1, <3>1, LedgerAssumption
    <3>4. Kept(i) \/ Shifted(i)
        BY <1>4, <3>2 DEF Advance, Advances, Kept, Shifted
    <3>. QED BY <3>3, <3>4 DEF Shifts
  <2>. QED BY <2>1, <2>2 DEF Shifts
<1>5. ASSUME NEW r \in Requests, Insert(r) PROVE Shifts
  <2>1. IDOf(r) \in RecordIDs
      BY IDTypes DEF LedgerInv
  <2>2. \A j \in RecordIDs : idempotency'[j] = IF j = IDOf(r) THEN r ELSE at(j)
      BY <1>5, <2>1 DEF Insert, LedgerInv, ControlTypeOK
  <2>3. /\ \A q \in Requests : status'[q] = IF q = r THEN "pending" ELSE status[q]
        /\ handler' = handler /\ status[r] = "none" /\ at(IDOf(r)) = NoRecord
      BY <1>5, Types DEF Insert
  <2>4. \A j \in GlobalIDs : j # IDOf(r) => Kept(j)
      BY <1>1, <1>2, <2>2, <2>3
  <2>5. CASE IDOf(r) \in GlobalIDs
    <3>1. PICK i \in GlobalIDs : i = IDOf(r)
        BY <2>5
    <3>2. handler[r] = "none"
        BY <2>3, At DEF Here, Placed
    <3>3. Shifted(i)
        BY <2>1, <2>2, <2>3, <3>1, <3>2, LedgerAssumption DEF Shifted, OutcomeOf, Followed
    <3>. QED BY <2>4, <3>1, <3>3 DEF Shifts
  <2>. QED BY <2>4, <2>5 DEF Shifts
<1>6. ASSUME NEW r \in Requests, cmd[r] \in Attach, Removed(r), UNCHANGED handler PROVE Shifts
  <2>1. IDOf(r) \in RecordIDs /\ IDOf(r) \notin GlobalIDs
      BY <1>6, IDTypes, GlobalID DEF LedgerInv
  <2>2. /\ \A j \in RecordIDs : j # IDOf(r) => idempotency'[j] = at(j)
        /\ \A q \in Requests : q # r => status'[q] = status[q]
      BY <1>6, <2>1, Types DEF Removed, Forget, LedgerInv, ControlTypeOK
  <2>. QED BY <1>1, <1>2, <1>6, <2>1, <2>2 DEF Shifts
<1>7. ASSUME NEW c \in Conns, Delete(c) PROVE Shifts
  <2>1. \A j \in GlobalIDs : at(j) \notin collected[c]
      BY SMTT(30), <1>1, LedgerAssumption DEF LedgerInv, MapInv, ControlTypeOK
  <2>. QED BY <1>1, <1>2, <1>7, <2>1 DEF Delete, Shifts
<1>. QED BY <1>3, <1>4, <1>5, <1>6, <1>7 DEF Sound, Changes

\* Steps of the ledger are steps of CommandOutcome, or leave it alone.
LEMMA AbstractStep ==
    ASSUME EffectFollows, EffectFollows', Shifts
    PROVE  [Abstract!Next]_<<[i \in GlobalIDs |-> OutcomeOf(i)], [i \in GlobalIDs |-> EffectOf(i)]>>
<1> DEFINE out == [i \in GlobalIDs |-> OutcomeOf(i)]
           eff == [i \in GlobalIDs |-> EffectOf(i)]
<1>1. /\ out = [j \in GlobalIDs |-> out[j]] /\ out' = [j \in GlobalIDs |-> out'[j]]
      /\ eff = [j \in GlobalIDs |-> eff[j]] /\ eff' = [j \in GlobalIDs |-> eff'[j]]
    OBVIOUS
<1>2. /\ \A j \in GlobalIDs : out[j] = OutcomeOf(j) /\ out'[j] = OutcomeOf(j)'
      /\ \A j \in GlobalIDs : eff[j] = Followed(j) /\ eff'[j] = Followed(j)'
    BY DEF EffectFollows
<1> HIDE DEF out, eff
<1>3. CASE \A j \in GlobalIDs : Kept(j)
  <2>1. out' = out /\ eff' = eff
      BY SMTT(30), <1>1, <1>2, <1>3 DEF Kept
  <2>. QED BY <2>1 DEF out, eff
<1>4. ASSUME NEW i \in GlobalIDs, Shifted(i), \A j \in GlobalIDs \ {i} : Kept(j)
      PROVE  Abstract!Next
  <2> DEFINE o == out'[i]
             e == eff'[i]
  <2>1. \/ out[i] = "fresh" /\ o = "pending" /\ e = eff[i]
        \/ /\ out[i] = "pending" /\ o = "pending"
           /\ \/ eff[i] = "none" /\ e = "running"
              \/ eff[i] = "running" /\ e = "ok"
        \/ /\ out[i] = "pending"
           /\ e \in IF eff[i] = "running" THEN {"ok", "error"} ELSE {eff[i]}
           /\ o \in IF e = "ok" THEN {"succeeded", "unknown"} ELSE {"failed"}
      BY <1>2, <1>4 DEF Shifted
  <2>2. /\ \A j \in GlobalIDs : out'[j] = IF j = i THEN o ELSE out[j]
        /\ \A j \in GlobalIDs : eff'[j] = IF j = i THEN e ELSE eff[j]
      BY <1>2, <1>4 DEF Kept
  <2> HIDE DEF o, e
  <2>3. out' = [out EXCEPT ![i] = o] /\ eff' = [eff EXCEPT ![i] = e]
      BY <1>1, <2>2
  <2>4. (o = out[i] => out' = out) /\ (e = eff[i] => eff' = eff)
      BY <1>1, <2>2
  <2>5. CASE out[i] = "fresh" /\ o = "pending" /\ e = eff[i]
    <3>1. out[i] = "fresh" /\ out' = [out EXCEPT ![i] = "pending"] /\ eff' = eff
        BY <2>3, <2>4, <2>5
    <3>2. Abstract!Begin(i)
        BY <3>1 DEF out, eff, Abstract!Begin
    <3>. QED BY <3>2 DEF Abstract!Next
  <2>6. CASE out[i] = "pending" /\ o = "pending" /\ eff[i] = "none" /\ e = "running"
    <3>1. out[i] = "pending" /\ eff[i] = "none" /\ eff' = [eff EXCEPT ![i] = "running"] /\ out' = out
        BY <2>3, <2>4, <2>6
    <3>2. Abstract!Start(i)
        BY <3>1 DEF out, eff, Abstract!Start
    <3>. QED BY <3>2 DEF Abstract!Next
  <2>7. CASE out[i] = "pending" /\ o = "pending" /\ eff[i] = "running" /\ e = "ok"
    <3>1. out[i] = "pending" /\ eff[i] = "running" /\ eff' = [eff EXCEPT ![i] = "ok"] /\ out' = out
        BY <2>3, <2>4, <2>7
    <3>2. Abstract!Finish(i)
        BY <3>1 DEF out, eff, Abstract!Finish
    <3>. QED BY <3>2 DEF Abstract!Next
  <2>8. CASE /\ out[i] = "pending"
             /\ e \in IF eff[i] = "running" THEN {"ok", "error"} ELSE {eff[i]}
             /\ o \in IF e = "ok" THEN {"succeeded", "unknown"} ELSE {"failed"}
    <3>1. Abstract!Settle(i)
        BY <2>3, <2>8 DEF out, eff, Abstract!Settle
    <3>. QED BY <3>1 DEF Abstract!Next
  <2>. QED BY <2>1, <2>5, <2>6, <2>7, <2>8
<1>. QED BY <1>3, <1>4 DEF Shifts

\* The initial states map to initial states of CommandOutcome.
LEMMA AbstractInit == Init => Abstract!Init
<1> SUFFICES ASSUME Init PROVE Abstract!Init
    OBVIOUS
<1>1. \A i \in GlobalIDs : OutcomeOf(i) = "fresh"
    BY InitInv, GlobalID DEF Init, OutcomeOf, LedgerInv
<1>2. \A i \in GlobalIDs : EffectOf(i) = "none"
    BY DEF Init, EffectOf, Dispatched
<1>. QED BY <1>1, <1>2 DEF Abstract!Init

\* What command.get_result has once answered as final is answered again until the
\* connection of its record is released.
THEOREM ResultsAreStable == Spec => ResultStable
<1>1. LedgerInv /\ [Next]_vars => \A i \in CommandIDs : CommandResult(i) \in Final =>
          \/ CommandResult(i)' = CommandResult(i)
          \/ /\ CommandResult(i)' = "unavailable"
             /\ conn'[on[commands[i]]] = "released"
    BY NextSound, ResultKept
<1>. QED BY <1>1, LedgerInvariant, PTL DEF Spec, ResultStable

\* The ledger implements the write-once, truthful outcome of CommandOutcome.
THEOREM ImplementsTheOutcome == Spec => ImplementsOutcome
<1>1. LedgerInv' => EffectFollows'
    BY Effects, PTL
<1>2. LedgerInv /\ [Next]_vars =>
        [Abstract!Next]_<<[i \in GlobalIDs |-> OutcomeOf(i)], [i \in GlobalIDs |-> EffectOf(i)]>>
    BY <1>1, NextSound, Effects, SoundShifts, AbstractStep DEF Sound
<1>. QED BY <1>2, AbstractInit, LedgerInvariant, PTL DEF Spec, ImplementsOutcome, Abstract!Spec
=============================================================================
