------------------------ MODULE AuthorizationProofs ------------------------
(* Proofs about Authorization, for any number of concurrent verifiers, any  *)
(* requests and any documents: what a check decides about a document stays  *)
(* opaque, and only the way a call ends matters.                            *)
EXTENDS Authorization, TLAPS

Pcs == {"idle", "check", "consume", "project", "done"}
Tiers == {"unverified", "native_contract_tested", "live_verified"}
CallType == [pc : Pcs, at : Int, epoch : Int, withdrawn : SUBSET EvidenceIDs, next : Nat \ {0}, code : Codes,
             projection : [tier : Tiers, id : EvidenceIDs \cup {None}]]

\* The shape of the calls, and which kind of request each place belongs to.
CallInv == /\ call \in [Verifiers -> CallType]
           /\ \A v \in Verifiers : /\ call[v].pc \in {"check", "consume"} => Args(v).kind \in Kinds
                                   /\ call[v].pc = "project" => Args(v).kind = "verification"

\* A live projection was admitted by the replay guard, which has not forgotten it.
BoundInv == \A v \in Verifiers :
                Args(v).kind = "verification" /\ call[v].projection.tier = "live_verified" =>
                    /\ Args(v).expected.nonce \in Nonces
                    /\ call[v].projection.id \in EvidenceIDs
                    /\ accepted[Args(v).expected.nonce] = call[v].projection.id

IInv == TypeOK /\ CallInv /\ SingleUse /\ RefusalKeepsNonce /\ BoundInv

\* Every check ends with one of the codes.
LEMMA CheckCodes ==
    ASSUME NEW r, NEW at
    PROVE  CheckCode(r, at) \in Codes
<1>1. ApprovalCode(r, at) \in Codes
  BY DEF ApprovalCode, Codes
<1>2. \A d, payload, trust : EvidenceSignatureCode(d, payload, trust, at) \in Codes
  BY DEF EvidenceSignatureCode, Codes
<1>3. VerifyCustody(r, at) \in Codes
  BY <1>2 DEF VerifyCustody, Codes
<1>4. VerifyIsolation(r, at) \in Codes
  BY <1>2 DEF VerifyIsolation, Codes
<1>. QED
  BY <1>1, <1>3, <1>4 DEF CheckCode

\* Evidence that applies is of a tier that can be issued.
LEMMA AppliesTier ==
    ASSUME NEW e, NEW x, NEW trust, NEW c, EvidenceApplies(e, x, trust, c)
    PROVE  e.tier \in Tiers \ {"unverified"}
BY DEF EvidenceApplies, VerificationValid, VerificationFieldsValid, Tiers

\* The receipt of a live run that applies carries the expected nonce.
LEMMA LiveNonce ==
    ASSUME NEW e, NEW x, NEW trust, NEW c, LiveApplies(e, x, trust, c), ExpectationValid(x)
    PROVE  e.receipt.nonce = x.nonce /\ x.nonce # None
<1>1. None \notin LiveFields(x)
  BY DEF LiveApplies, ExpectationValid
<1>2. x.nonce # None
  BY <1>1 DEF LiveFields
<1>3. e.receipt.nonce = x.nonce
  BY DEF LiveApplies, AuthorizationExpected, ReceiptMatches
<1>. QED
  BY <1>2, <1>3

\* A call that ends keeps its projection, its clock reading and its policy.
LEMMA FinishShape ==
    ASSUME NEW v \in Verifiers, NEW code \in Codes, CallInv, Finish(v, code)
    PROVE  /\ call' \in [Verifiers -> CallType]
           /\ \A w \in Verifiers : /\ call'[w].projection = call[w].projection
                                   /\ call'[w].at = call[w].at /\ call'[w].withdrawn = call[w].withdrawn
                                   /\ call'[w].code \in Codes
                                   /\ call'[w].pc = IF w = v THEN "done" ELSE call[w].pc
<1> DEFINE ended == [call[v] EXCEPT !.pc = "done", !.code = code]
<1>1. call' = [call EXCEPT ![v] = ended]
  BY Zenon DEF Finish, CallInv
<1>2. call[v] \in CallType
  BY DEF CallInv
<1>3. /\ ended \in CallType
      /\ ended.projection = call[v].projection
      /\ ended.at = call[v].at /\ ended.withdrawn = call[v].withdrawn
      /\ ended.code = code /\ ended.pc = "done"
  BY <1>2, Zenon DEF CallType, Pcs
<1>4. \A w \in Verifiers : call[w].code \in Codes
  BY DEF CallInv, CallType
<1> HIDE DEF ended
<1>. QED
  BY <1>1, <1>3, <1>4 DEF CallInv

\* The initial states, where no call has begun, satisfy the invariant.
LEMMA InitInv == Init => IInv
<1> SUFFICES ASSUME Init PROVE IInv
  OBVIOUS
<1>1. call \in [Verifiers -> CallType]
  BY DEF Init, Waiting, CallType, Pcs, Tiers, Codes, Unverified
<1>2. TypeOK
  BY AuthorizationAssumption DEF Init, TypeOK, Waiting, Codes
<1>3. CallInv /\ BoundInv
  BY <1>1, Zenon DEF Init, Waiting, CallInv, BoundInv, Unverified
<1>4. SingleUse /\ RefusalKeepsNonce
  BY DEF Init, SingleUse, RefusalKeepsNonce
<1>. QED
  BY <1>2, <1>3, <1>4 DEF IInv

\* A call that starts keeps the invariant.
LEMMA StartInv ==
    ASSUME IInv, NEW v \in Verifiers, Start(v)
    PROVE  IInv'
<1> USE DEF IInv
<1>1. Args(v).kind \in Kinds \cup {"verification"}
  BY AuthorizationAssumption DEF Args, TypeOK
<1>2. /\ call' \in [Verifiers -> CallType]
      /\ \A w \in Verifiers : w # v => call'[w] = call[w]
      /\ call'[v].projection = call[v].projection /\ call'[v].code = call[v].code
      /\ call'[v].at = now /\ call'[v].withdrawn = withdrawn
      /\ call'[v].pc = IF Args(v).kind = "verification" THEN "project" ELSE "check"
  BY DEF Start, TypeOK, CallInv, CallType, Pcs
<1>3. TypeOK'
  BY <1>2 DEF Start, TypeOK
<1>4. CallInv'
  BY <1>1, <1>2 DEF Start, CallInv, Args
<1>5. BoundInv'
  BY <1>2 DEF Start, BoundInv, Args
<1>6. SingleUse' /\ RefusalKeepsNonce'
  BY DEF Start, SingleUse, RefusalKeepsNonce
<1>. QED
  BY <1>3, <1>4, <1>5, <1>6

\* The decision of one check keeps the invariant.
LEMMA CheckInv ==
    ASSUME IInv, NEW v \in Verifiers, Check(v)
    PROVE  IInv'
<1> USE DEF IInv
<1>1. /\ call' \in [Verifiers -> CallType]
      /\ \A w \in Verifiers : /\ call'[w].projection = call[w].projection
                              /\ call'[w].at = call[w].at /\ call'[w].withdrawn = call[w].withdrawn
                              /\ call'[w].code \in Codes
                              /\ call'[w].pc \in {call[w].pc, IF w = v THEN "consume" ELSE "done", "done"}
                              /\ w # v => call'[w].pc = call[w].pc
  <2>1. CASE call' = [call EXCEPT ![v].pc = "consume"]
    BY <2>1 DEF CallInv, CallType, Pcs
  <2>2. CASE Finish(v, CheckCode(Args(v), call[v].at))
    BY <2>2, CheckCodes, FinishShape
  <2>. QED
    BY <2>1, <2>2 DEF Check
<1>2. call[v].pc = "check"
  BY DEF Check
<1>3. TypeOK'
  BY <1>1, <1>2 DEF Check, TypeOK
<1>4. CallInv'
  BY <1>1, <1>2 DEF Check, CallInv, Args
<1>5. BoundInv'
  BY <1>1 DEF Check, BoundInv, Args
<1>6. SingleUse' /\ RefusalKeepsNonce'
  BY DEF Check, SingleUse, RefusalKeepsNonce
<1>. QED
  BY <1>3, <1>4, <1>5, <1>6

\* Spending the nonce of a call keeps the invariant.
LEMMA SpendInv ==
    ASSUME IInv, NEW v \in Verifiers, Spend(v)
    PROVE  IInv'
<1> USE DEF IInv
<1> DEFINE n == NonceOf(Args(v))
           grant == [by |-> v, kind |-> Args(v).kind, nonce |-> n]
<1> HIDE DEF n
<1>1. PICK code \in {"replay", "ok"} : Finish(v, code)
  BY DEF Spend, Grant
<1>2. code \in Codes
  BY <1>1 DEF Codes
<1>3. call[v].pc = "consume" /\ Args(v).kind \in Kinds /\ n \in Nonces
  BY AuthorizationAssumption DEF Spend, CallInv, TypeOK, Args, n
<1>4. UNCHANGED <<now, epoch, withdrawn, accepted, request>>
  BY DEF Spend
<1>5. /\ call' \in [Verifiers -> CallType]
      /\ \A w \in Verifiers : /\ call'[w].projection = call[w].projection
                              /\ call'[w].at = call[w].at /\ call'[w].withdrawn = call[w].withdrawn
                              /\ call'[w].code \in Codes
                              /\ call'[w].pc = IF w = v THEN "done" ELSE call[w].pc
  BY <1>1, <1>2, FinishShape
<1>6. \/ consumed' = consumed /\ grants' = grants
      \/ n \notin consumed /\ consumed' = consumed \cup {n} /\ grants' = grants \cup {grant}
  BY DEF Spend, Grant, Consume, n
<1>7. consumed' \subseteq Nonces /\ \A g \in grants' : g.by \in Verifiers /\ g.kind \in Kinds /\ g.nonce \in Nonces
  BY <1>3, <1>6 DEF TypeOK
<1>8. TypeOK'
  BY <1>3, <1>4, <1>5, <1>7 DEF TypeOK
<1>9. CallInv'
  BY <1>4, <1>5 DEF CallInv, Args
<1>10. BoundInv'
  BY <1>4, <1>5 DEF BoundInv, Args
<1>11. RefusalKeepsNonce'
  <2>1. CASE consumed' = consumed /\ grants' = grants
    BY <2>1 DEF RefusalKeepsNonce
  <2>2. CASE consumed' = consumed \cup {n} /\ grants' = grants \cup {grant}
    <3>1. grant.nonce = n
      OBVIOUS
    <3>. QED
      BY <2>2, <3>1, Zenon DEF RefusalKeepsNonce
  <2>. QED
    BY <1>6, <2>1, <2>2
<1>12. SingleUse'
  BY <1>6 DEF RefusalKeepsNonce, SingleUse
<1>. QED
  BY <1>8, <1>9, <1>10, <1>11, <1>12

(*********************** one iteration of the loop *************************)

Live(v, i) == Args(v).evidence[i].tier = "live_verified"
Shown(v, i) == [tier |-> Args(v).evidence[i].tier, id |-> Args(v).evidence[i].id]

\* The loop offers the live run of evidence i to the replay guard.
Presented(v, i) == /\ EvidenceApplies(Args(v).evidence[i], Args(v).expected, Args(v).trust, call[v])
                   /\ Live(v, i) /\ ExpectationValid(Args(v).expected)
                   /\ LiveApplies(Args(v).evidence[i], Args(v).expected, Args(v).trust, call[v])

\* The guard admits it; the iteration takes it, or contract evidence when it has none.
Applies(v, i) == EvidenceApplies(Args(v).evidence[i], Args(v).expected, Args(v).trust, call[v])
Admits(v, i) == Presented(v, i) /\ Accepts(Args(v).evidence[i].receipt.nonce, Args(v).evidence[i].id)
Takes(v, i) == Admits(v, i) \/ (Applies(v, i) /\ ~Live(v, i) /\ call[v].projection = Unverified)

\* What an evaluation reads of its call, and what its loop carries.
Alike(c, d) == c.at = d.at /\ c.epoch = d.epoch /\ c.withdrawn = d.withdrawn
Carried(c, d) == Alike(c, d) /\ c.next = d.next /\ c.projection = d.projection

\* The replay guard never rebinds a run.
Remembers == \A n \in Nonces : accepted[n] # None => accepted'[n] = accepted[n]

\* A position between the first and the last.
LEMMA InRange ==
    ASSUME NEW n \in Nat, NEW k \in Nat \ {0}, k <= n
    PROVE  k \in 1..n
OBVIOUS

\* The evidence that an iteration looks at has an ID, and a run may have a nonce.
LEMMA CandidateTypes ==
    ASSUME IInv, NEW v \in Verifiers, Candidate(v)
    PROVE  /\ call[v].next \in 1..Len(Args(v).evidence)
           /\ Args(v).evidence[call[v].next].id \in EvidenceIDs
           /\ Args(v).expected.nonce \in Nonces \cup {None}
<1>1. call[v].pc = "project" /\ call[v].next <= Len(Args(v).evidence)
  BY Zenon DEF Candidate
<1>2. Args(v).kind = "verification" /\ call[v].next \in Nat \ {0}
  BY <1>1 DEF IInv, CallInv, CallType
<1>3. /\ Len(Args(v).evidence) \in Nat
      /\ Args(v).expected.nonce \in Nonces \cup {None}
      /\ \A i \in 1..Len(Args(v).evidence) : Args(v).evidence[i].id \in EvidenceIDs
  BY <1>2, AuthorizationAssumption, Zenon DEF IInv, TypeOK, Args
<1>4. call[v].next \in 1..Len(Args(v).evidence)
  BY <1>1, <1>2, <1>3, InRange, Zenon
<1>. QED
  BY <1>3, <1>4

\* A run that is offered to the guard has a nonce, the expected one.
LEMMA PresentedNonce ==
    ASSUME TypeOK, NEW v \in Verifiers, Args(v).kind = "verification", NEW i, Presented(v, i)
    PROVE  Args(v).evidence[i].receipt.nonce \in Nonces
<1>1. /\ Args(v).evidence[i].receipt.nonce = Args(v).expected.nonce
      /\ Args(v).expected.nonce # None
  BY LiveNonce, Zenon DEF Presented
<1>2. Args(v).expected.nonce \in Nonces \cup {None}
  BY AuthorizationAssumption DEF TypeOK, Args
<1>. QED
  BY <1>1, <1>2

\* What one iteration does to its call, to the guard and to the other calls.
LEMMA CandidateShape ==
    ASSUME IInv, NEW v \in Verifiers, Candidate(v), NEW k, k = call[v].next
    PROVE  /\ Args(v).kind = "verification" /\ ExpectationValid(Args(v).expected)
           /\ call[v].pc = "project" /\ UNCHANGED <<now, epoch, withdrawn, consumed, request, grants>>
           /\ accepted' = IF Admits(v, k)
                          THEN [accepted EXCEPT ![Args(v).evidence[k].receipt.nonce] = Args(v).evidence[k].id]
                          ELSE accepted
           /\ call' \in [Verifiers -> CallType]
           /\ \A w \in Verifiers \ {v} : call'[w] = call[w]
           /\ call'[v].pc = "project" /\ call'[v].code = call[v].code
           /\ call'[v].next = k + 1 /\ Alike(call'[v], call[v])
           /\ call'[v].projection = IF Takes(v, k) THEN Shown(v, k) ELSE call[v].projection
<1> DEFINE p == IF Takes(v, k) THEN Shown(v, k) ELSE call[v].projection
           moved == [call[v] EXCEPT !.next = k + 1, !.projection = p]
           guard == IF Admits(v, k)
                    THEN [accepted EXCEPT ![Args(v).evidence[k].receipt.nonce] = Args(v).evidence[k].id]
                    ELSE accepted
<1>1. /\ call[v].pc = "project" /\ ExpectationValid(Args(v).expected)
      /\ UNCHANGED <<now, epoch, withdrawn, consumed, request, grants>>
      /\ accepted' = guard
      /\ call' = [call EXCEPT ![v].next = @ + 1, ![v].projection = IF Takes(v, k) THEN Shown(v, k) ELSE @]
  BY Zenon DEF Candidate, Admits, Takes, Applies, Presented, Live, Shown
<1> HIDE DEF guard
<1>2. Args(v).kind = "verification" /\ call \in [Verifiers -> CallType]
  BY <1>1 DEF IInv, CallInv
<1>3. call[v] \in CallType
  BY <1>2
<1>4. Takes(v, k) => Shown(v, k) \in [tier : Tiers, id : EvidenceIDs \cup {None}]
  <2>1. Takes(v, k) => Args(v).evidence[k].tier \in Tiers
    BY AppliesTier, Zenon DEF Takes, Admits, Presented, Applies
  <2>2. Args(v).evidence[k].id \in EvidenceIDs
    BY CandidateTypes, Zenon
  <2>. QED
    BY <2>1, <2>2, Zenon DEF Shown
<1>5. p \in [tier : Tiers, id : EvidenceIDs \cup {None}] /\ k + 1 \in Nat \ {0}
  BY <1>3, <1>4 DEF CallType
<1>6. call' = [call EXCEPT ![v] = moved]
  BY <1>1, <1>2, Zenon
<1> HIDE DEF p
<1>7. /\ moved \in CallType /\ moved.projection = p /\ moved.next = k + 1
      /\ moved.pc = call[v].pc /\ moved.code = call[v].code
      /\ moved.at = call[v].at /\ moved.epoch = call[v].epoch /\ moved.withdrawn = call[v].withdrawn
  BY <1>3, <1>5, Zenon DEF CallType
<1> HIDE DEF moved
<1>8. /\ call' \in [Verifiers -> CallType] /\ call'[v] = moved
      /\ \A w \in Verifiers \ {v} : call'[w] = call[w]
  BY <1>2, <1>6, <1>7
<1>. QED
  BY <1>1, <1>2, <1>7, <1>8, Zenon DEF Alike, p, guard

\* The guard binds an admitted run, and keeps what it has bound.
LEMMA CandidateGuard ==
    ASSUME IInv, NEW v \in Verifiers, Candidate(v), NEW k, k = call[v].next
    PROVE  /\ accepted' \in [Nonces -> EvidenceIDs \cup {None}]
           /\ Remembers
           /\ Admits(v, k) => accepted'[Args(v).evidence[k].receipt.nonce] = Args(v).evidence[k].id
<1> DEFINE n == Args(v).evidence[k].receipt.nonce
           id == Args(v).evidence[k].id
           admitted == Admits(v, k)
<1>1. accepted' = IF admitted THEN [accepted EXCEPT ![n] = id] ELSE accepted
  BY CandidateShape, Zenon
<1>2. admitted => accepted[n] \in {None, id}
  BY Zenon DEF Admits, Accepts
<1>3. accepted \in [Nonces -> EvidenceIDs \cup {None}] /\ TypeOK
  BY DEF IInv, TypeOK
<1>4. id \in EvidenceIDs
  BY CandidateTypes, Zenon
<1>5. admitted => n \in Nonces
  <2>1. Args(v).kind = "verification"
    BY CandidateShape, Zenon
  <2>. QED
    BY <1>3, <2>1, PresentedNonce, Zenon DEF Admits
<1> HIDE DEF n, id, admitted
<1>6. /\ accepted' \in [Nonces -> EvidenceIDs \cup {None}]
      /\ Remembers
      /\ admitted => accepted'[n] = id
  BY <1>1, <1>2, <1>3, <1>4, <1>5 DEF Remembers
<1>. QED
  BY <1>6, Zenon DEF n, id, admitted

\* The replay guard binds a run once and keeps it bound.
LEMMA CandidateInv ==
    ASSUME IInv, NEW v \in Verifiers, Candidate(v)
    PROVE  IInv'
<1> USE DEF IInv
<1>0. PICK k : k = call[v].next
  OBVIOUS
<1>1. /\ call[v].pc = "project" /\ Args(v).kind = "verification"
      /\ UNCHANGED <<now, epoch, withdrawn, consumed, request, grants>>
      /\ call' \in [Verifiers -> CallType]
      /\ call'[v].projection = IF Takes(v, k) THEN Shown(v, k) ELSE call[v].projection
  BY <1>0, CandidateShape, Zenon
<1>2. \A w \in Verifiers : /\ call'[w].pc = call[w].pc /\ call'[w].code = call[w].code
                           /\ call'[w].at = call[w].at /\ call'[w].withdrawn = call[w].withdrawn
                           /\ w # v => call'[w].projection = call[w].projection
  <2>1. /\ \A w \in Verifiers \ {v} : call'[w] = call[w]
        /\ call[v].pc = "project" /\ call'[v].pc = "project"
        /\ call'[v].code = call[v].code /\ Alike(call'[v], call[v])
    BY <1>0, CandidateShape, Zenon
  <2>. QED
    BY <2>1, Zenon DEF Alike
<1>3. /\ accepted' \in [Nonces -> EvidenceIDs \cup {None}]
      /\ Remembers
      /\ Admits(v, k) => accepted'[Args(v).evidence[k].receipt.nonce] = Args(v).evidence[k].id
  BY <1>0, CandidateGuard, Zenon
<1>4. TypeOK'
  BY <1>1, <1>2, <1>3 DEF TypeOK
<1>5. CallInv'
  BY <1>1, <1>2 DEF CallInv, Args
<1>6. BoundInv'
  <2> SUFFICES ASSUME NEW w \in Verifiers, Args(w).kind = "verification",
                      call'[w].projection.tier = "live_verified"
               PROVE  /\ Args(w).expected.nonce \in Nonces
                      /\ call'[w].projection.id \in EvidenceIDs
                      /\ accepted'[Args(w).expected.nonce] = call'[w].projection.id
    BY <1>1, Zenon DEF BoundInv, Args
  <2>1. CASE w = v /\ Takes(v, k)
    <3>1. call'[v].projection = Shown(v, k)
      BY <1>1, <2>1, Zenon
    <3>2. /\ Shown(v, k).tier = Args(v).evidence[k].tier
          /\ Shown(v, k).id = Args(v).evidence[k].id
      BY DEF Shown
    <3>3. Admits(v, k)
      BY <2>1, <3>1, <3>2, Zenon DEF Takes, Live
    <3>4. /\ Args(v).evidence[k].receipt.nonce \in Nonces
          /\ Args(v).evidence[k].receipt.nonce = Args(v).expected.nonce
      BY <1>1, <3>3, PresentedNonce, LiveNonce, Zenon DEF Admits, Presented
    <3>5. Args(v).evidence[k].id \in EvidenceIDs
      BY <1>0, CandidateTypes, Zenon
    <3>. QED
      BY <1>3, <2>1, <3>1, <3>2, <3>3, <3>4, <3>5, Zenon
  <2>2. CASE ~(w = v /\ Takes(v, k))
    <3>1. call'[w].projection = call[w].projection
      BY <1>1, <1>2, <2>2, Zenon
    <3>. QED
      BY <3>1, <1>3, AuthorizationAssumption DEF BoundInv, Remembers
  <2>. QED
    BY <2>1, <2>2
<1>7. SingleUse' /\ RefusalKeepsNonce'
  BY <1>1 DEF SingleUse, RefusalKeepsNonce
<1>. QED
  BY <1>4, <1>5, <1>6, <1>7

\* The projection of the answer keeps the invariant.
LEMMA ProjectInv ==
    ASSUME IInv, NEW v \in Verifiers, Project(v)
    PROVE  IInv'
<1> USE DEF IInv
<1>1. Finish(v, "ok") /\ "ok" \in Codes
  BY DEF Project, Codes
<1>2. /\ call' \in [Verifiers -> CallType]
      /\ \A w \in Verifiers : /\ call'[w].projection = call[w].projection
                              /\ call'[w].at = call[w].at /\ call'[w].withdrawn = call[w].withdrawn
                              /\ call'[w].code \in Codes
                              /\ call'[w].pc = IF w = v THEN "done" ELSE call[w].pc
  BY <1>1, FinishShape
<1>3. UNCHANGED <<now, epoch, withdrawn, consumed, accepted, request, grants>> /\ call[v].pc = "project"
  BY DEF Project
<1>4. TypeOK'
  BY <1>2, <1>3 DEF TypeOK
<1>5. CallInv'
  BY <1>2, <1>3 DEF CallInv, Args
<1>6. BoundInv'
  BY <1>2, <1>3 DEF BoundInv, Args
<1>7. SingleUse' /\ RefusalKeepsNonce'
  BY <1>3 DEF SingleUse, RefusalKeepsNonce
<1>. QED
  BY <1>4, <1>5, <1>6, <1>7

\* The clock and the control plane move only forward.
LEMMA EnvironmentInv ==
    ASSUME IInv, Tick \/ (\E id \in EvidenceIDs : Withdraw(id)) \/ Rotate \/ UNCHANGED vars
    PROVE  IInv'
<1> USE DEF IInv
<1>1. /\ UNCHANGED <<consumed, accepted, request, call, grants>>
      /\ now' \in now..MaxTime /\ epoch' \in 1..MaxEpoch
      /\ withdrawn \subseteq withdrawn' /\ withdrawn' \subseteq EvidenceIDs
  BY AuthorizationAssumption DEF Tick, Withdraw, Rotate, vars, TypeOK
<1>2. TypeOK'
  BY <1>1, AuthorizationAssumption DEF TypeOK
<1>3. CallInv' /\ BoundInv' /\ SingleUse' /\ RefusalKeepsNonce'
  BY <1>1 DEF CallInv, BoundInv, SingleUse, RefusalKeepsNonce, Args
<1>. QED
  BY <1>2, <1>3

\* The inductive invariant.
THEOREM Invariance == Spec => []IInv
<1>1. Init => IInv
  BY InitInv
<1>2. IInv /\ [Next]_vars => IInv'
  BY StartInv, CheckInv, SpendInv, CandidateInv, ProjectInv, EnvironmentInv DEF Next
<1>. QED
  BY <1>1, <1>2, PTL DEF Spec

\* A call works with a clock reading and a policy that are not ahead of the world.
THEOREM TypeCorrect == Spec => []TypeOK
<1>1. IInv => TypeOK
  BY DEF IInv
<1>. QED
  BY <1>1, Invariance, PTL

\* A nonce authorizes at most one of any number of concurrent calls.
THEOREM NonceSingleUse == Spec => []SingleUse
<1>1. IInv => SingleUse
  BY DEF IInv
<1>. QED
  BY <1>1, Invariance, PTL

\* A refused call leaves its nonce unspent.
THEOREM NonceKept == Spec => []RefusalKeepsNonce
<1>1. IInv => RefusalKeepsNonce
  BY DEF IInv
<1>. QED
  BY <1>1, Invariance, PTL

\* All live projections for one run nonce name one evidence ID.
THEOREM RunsBound == Spec => []RunBound
<1>1. IInv => RunBound
  BY DEF IInv, BoundInv, RunBound
<1>. QED
  BY <1>1, Invariance, PTL

(************************ the projection's loop ****************************)

\* The projection is the best of the positions in good, with the position as witness.
Projects(v, good) ==
    \/ good = {} /\ call[v].projection = Unverified
    \/ \E b \in good : /\ call[v].projection = Shown(v, b)
                       /\ Live(v, b) /\ \A j \in good : Live(v, j) => j <= b
    \/ \E b \in good : /\ call[v].projection = Shown(v, b)
                       /\ \A j \in good : ~Live(v, j) /\ b <= j

Seen(v) == {i \in Admissible(v) : i < call[v].next}

\* Where the loop is.
PlaceInv(v) == /\ call[v].pc = "idle" \/ ~ExpectationValid(Args(v).expected) => call[v].next = 1
               /\ call[v].pc = "done" /\ ExpectationValid(Args(v).expected) =>
                      call[v].next > Len(Args(v).evidence)

\* What the loop has made of the evidence it has seen; the guard knows every run
\* the loop has offered, so that none becomes admissible behind its back.
SeenInv(v) == /\ Projects(v, Seen(v))
              /\ \A i \in 1..Len(Args(v).evidence) :
                    i < call[v].next /\ Presented(v, i) => accepted[Args(v).evidence[i].receipt.nonce] # None

LoopInv == \A v \in Verifiers : Args(v).kind = "verification" => PlaceInv(v) /\ SeenInv(v)

\* A verification's evidence is a list.
LEMMA EvidenceList ==
    ASSUME request \in Scripts, NEW v \in Verifiers, Args(v).kind = "verification"
    PROVE  Len(Args(v).evidence) \in Nat
BY AuthorizationAssumption, Zenon DEF Args

\* The checks read only the clock and the policy of the call.
LEMMA AppliesAlike ==
    ASSUME NEW c, NEW d, Alike(c, d), NEW e, NEW x, NEW trust
    PROVE  /\ EvidenceApplies(e, x, trust, c) <=> EvidenceApplies(e, x, trust, d)
           /\ LiveApplies(e, x, trust, c) <=> LiveApplies(e, x, trust, d)
<1>1. EvidenceApplies(e, x, trust, c) <=> EvidenceApplies(e, x, trust, d)
  BY Zenon DEF Alike, EvidenceApplies
<1>2. LiveApplies(e, x, trust, c) <=> LiveApplies(e, x, trust, d)
  BY Zenon DEF Alike, LiveApplies
<1>. QED
  BY <1>1, <1>2

\* A position is admissible when it applies and, for a live run, was offered and bound.
LEMMA AdmissibleDef ==
    ASSUME NEW v, NEW i \in 1..Len(Args(v).evidence), ExpectationValid(Args(v).expected)
    PROVE  i \in Admissible(v) <=>
               /\ EvidenceApplies(Args(v).evidence[i], Args(v).expected, Args(v).trust, call[v])
               /\ Live(v, i) => /\ Presented(v, i)
                                /\ accepted[Args(v).evidence[i].receipt.nonce] = Args(v).evidence[i].id
BY Zenon DEF Admissible, Live, Presented

\* What was admissible among the evidence seen stays so, and nothing joins it, while
\* other callers' runs are bound.
LEMMA AdmissibleStays ==
    ASSUME TypeOK, NEW v \in Verifiers, Args(v).kind = "verification",
           request' = request, Alike(call'[v], call[v]), Remembers,
           ExpectationValid(Args(v).expected), NEW i \in 1..Len(Args(v).evidence),
           Presented(v, i) => accepted[Args(v).evidence[i].receipt.nonce] # None
    PROVE  /\ i \in Admissible(v)' <=> i \in Admissible(v)
           /\ Presented(v, i)' <=> Presented(v, i)
<1>1. Args(v)' = Args(v)
  BY DEF Args
<1>2. Live(v, i)' <=> Live(v, i)
  BY <1>1, Zenon DEF Live
<1> DEFINE e == Args(v).evidence[i]
           x == Args(v).expected
           trust == Args(v).trust
<1>3. /\ EvidenceApplies(e, x, trust, call'[v]) <=> EvidenceApplies(e, x, trust, call[v])
      /\ LiveApplies(e, x, trust, call'[v]) <=> LiveApplies(e, x, trust, call[v])
  BY AppliesAlike, Zenon
<1>4. Presented(v, i)' <=> Presented(v, i)
  BY <1>1, <1>2, <1>3, Zenon DEF Presented
<1>5. Presented(v, i) => accepted'[e.receipt.nonce] = accepted[e.receipt.nonce]
  BY PresentedNonce DEF Remembers
<1>6. i \in Admissible(v)' <=>
          /\ EvidenceApplies(e, x, trust, call'[v])
          /\ Live(v, i)' => Presented(v, i)' /\ accepted'[e.receipt.nonce] = e.id
  BY <1>1, Zenon DEF Admissible, Live, Presented
<1>7. i \in Admissible(v) <=>
          /\ EvidenceApplies(e, x, trust, call[v])
          /\ Live(v, i) => Presented(v, i) /\ accepted[e.receipt.nonce] = e.id
  BY AdmissibleDef, Zenon
<1> HIDE DEF e, x, trust
<1>. QED
  BY <1>2, <1>3, <1>4, <1>5, <1>6, <1>7, Zenon

\* A step that moves another call leaves what this one has seen and projects.
LEMMA SeenStays ==
    ASSUME TypeOK, NEW v \in Verifiers, Args(v).kind = "verification", PlaceInv(v), SeenInv(v),
           request' = request, Carried(call'[v], call[v]), Remembers
    PROVE  SeenInv(v)'
<1>1. Args(v)' = Args(v)
  BY DEF Args
<1>2. /\ Alike(call'[v], call[v])
      /\ call'[v].next = call[v].next /\ call'[v].projection = call[v].projection
  BY DEF Carried
<1>3. ASSUME NEW i \in 1..Len(Args(v).evidence), i < call[v].next
      PROVE  /\ i \in Admissible(v)' <=> i \in Admissible(v)
             /\ Presented(v, i)' <=> Presented(v, i)
             /\ Presented(v, i) => accepted'[Args(v).evidence[i].receipt.nonce] # None
  <2>1. Presented(v, i) => accepted[Args(v).evidence[i].receipt.nonce] # None
    BY <1>3, Zenon DEF SeenInv
  <2>0. ExpectationValid(Args(v).expected)
    <3>1. call[v].next # 1
      BY <1>3
    <3>. QED
      BY <3>1, Zenon DEF PlaceInv
  <2>2. /\ i \in Admissible(v)' <=> i \in Admissible(v)
        /\ Presented(v, i)' <=> Presented(v, i)
    BY <1>2, <2>0, <2>1, AdmissibleStays
  <2>3. Presented(v, i) => accepted'[Args(v).evidence[i].receipt.nonce] # None
    BY <2>1, PresentedNonce DEF Remembers
  <2>. QED
    BY <2>2, <2>3
<1>4. Admissible(v) \subseteq 1..Len(Args(v).evidence) /\ Admissible(v)' \subseteq 1..Len(Args(v).evidence)
  BY <1>1, Zenon DEF Admissible
<1>5. Seen(v)' = Seen(v)
  <2>1. \A i : i \in Seen(v) <=> i \in Admissible(v) /\ i < call[v].next
    BY Zenon DEF Seen
  <2>2. \A i : i \in Seen(v)' <=> i \in Admissible(v)' /\ i < call[v].next
    BY <1>2, Zenon DEF Seen
  <2>3. \A i : i \in Seen(v)' <=> i \in Seen(v)
    BY <1>3, <1>4, <2>1, <2>2, Zenon
  <2>. QED
    BY <2>3, Zenon
<1>6. Projects(v, Seen(v))'
  <2>1. \A i : (Live(v, i)' <=> Live(v, i)) /\ Shown(v, i)' = Shown(v, i)
    BY <1>1, Zenon DEF Live, Shown
  <2>2. Projects(v, Seen(v))
    BY DEF SeenInv
  <2>. QED
    BY <1>2, <1>5, <2>1, <2>2, Zenon DEF Projects
<1>. QED
  BY <1>1, <1>2, <1>3, <1>6, Zenon DEF SeenInv

\* What the loop does with one more position: a live one replaces the projection, a
\* contract one is taken only when there is nothing yet.
LEMMA ProjectsNext ==
    ASSUME NEW v \in Verifiers, NEW seen \in SUBSET Int, NEW k \in Int, \A i \in seen : i < k,
           Projects(v, seen), Args(v)' = Args(v), NEW good \in BOOLEAN,
           call'[v].projection = IF good /\ (Live(v, k) \/ call[v].projection = Unverified)
                                 THEN Shown(v, k) ELSE call[v].projection,
           \A i \in seen : Args(v).evidence[i].tier # "unverified"
    PROVE  Projects(v, IF good THEN seen \cup {k} ELSE seen)'
<1>1. \A i : (Live(v, i)' <=> Live(v, i)) /\ Shown(v, i)' = Shown(v, i)
  BY Zenon DEF Live, Shown
<1>2. CASE ~good
  BY <1>1, <1>2, Zenon DEF Projects
<1>3. CASE good /\ Live(v, k)
  <2>1. call'[v].projection = Shown(v, k)
    BY <1>3
  <2>2. \A j \in seen \cup {k} : j <= k
    OBVIOUS
  <2>. QED
    BY <1>1, <1>3, <2>1, <2>2, Zenon DEF Projects
<1>4. CASE good /\ ~Live(v, k) /\ call[v].projection = Unverified
  <2>1. call'[v].projection = Shown(v, k)
    BY <1>4
  <2>2. ASSUME NEW b \in seen, call[v].projection = Shown(v, b) PROVE FALSE
    BY <1>4, <2>2 DEF Shown, Unverified
  <2>3. seen = {}
    BY <2>2, Zenon DEF Projects
  <2>4. \A j \in seen \cup {k} : ~Live(v, j) /\ k <= j
    BY <1>4, <2>3
  <2>. QED
    BY <1>1, <1>4, <2>1, <2>4, Zenon DEF Projects
<1>5. CASE good /\ ~Live(v, k) /\ call[v].projection # Unverified
  <2>1. call'[v].projection = call[v].projection
    BY <1>5
  <2>2. CASE \E b \in seen : /\ call[v].projection = Shown(v, b)
                             /\ Live(v, b) /\ \A j \in seen : Live(v, j) => j <= b
    <3>1. PICK b \in seen : /\ call[v].projection = Shown(v, b)
                            /\ Live(v, b) /\ \A j \in seen : Live(v, j) => j <= b
      BY <2>2, Zenon
    <3>2. \A j \in seen \cup {k} : Live(v, j) => j <= b
      BY <1>5, <3>1
    <3>. QED
      BY <1>1, <1>5, <2>1, <3>1, <3>2, Zenon DEF Projects
  <2>3. CASE \E b \in seen : /\ call[v].projection = Shown(v, b)
                             /\ \A j \in seen : ~Live(v, j) /\ b <= j
    <3>1. PICK b \in seen : /\ call[v].projection = Shown(v, b)
                            /\ \A j \in seen : ~Live(v, j) /\ b <= j
      BY <2>3, Zenon
    <3>2. b <= k
      OBVIOUS
    <3>3. \A j \in seen \cup {k} : ~Live(v, j) /\ b <= j
      BY <1>5, <3>1, <3>2
    <3>. QED
      BY <1>1, <1>5, <2>1, <3>1, <3>3, Zenon DEF Projects
  <2>. QED
    BY <1>5, <2>2, <2>3, Zenon DEF Projects
<1>. QED
  BY <1>2, <1>3, <1>4, <1>5

\* One iteration takes one more position into account, and rightly so.
LEMMA CandidateSeen ==
    ASSUME IInv, NEW v \in Verifiers, Candidate(v), SeenInv(v)
    PROVE  SeenInv(v)'
<1>0. PICK k \in Int : k = call[v].next
  BY DEF IInv, CallInv, CallType
<1> DEFINE e == Args(v).evidence[k]
           applies == Applies(v, k)
           admitted == Admits(v, k)
           good == applies /\ (Live(v, k) => admitted)
           evidence == Args(v).evidence
<1>1. /\ Args(v).kind = "verification" /\ request' = request /\ ExpectationValid(Args(v).expected)
      /\ k \in 1..Len(evidence) /\ Len(evidence) \in Nat
      /\ accepted' = IF admitted THEN [accepted EXCEPT ![e.receipt.nonce] = e.id] ELSE accepted
      /\ call'[v].next = k + 1 /\ Alike(call'[v], call[v])
      /\ call'[v].projection = IF Takes(v, k) THEN Shown(v, k) ELSE call[v].projection
  <2>1. Len(evidence) \in Nat /\ k \in 1..Len(evidence)
    BY <1>0, CandidateShape, CandidateTypes, EvidenceList, Zenon DEF IInv, TypeOK
  <2>. QED
    BY <1>0, <2>1, CandidateShape, Zenon
<1>2. Remembers /\ TypeOK
  BY <1>0, CandidateGuard, Zenon DEF IInv
<1>3. Args(v)' = Args(v)
  BY <1>1 DEF Args
<1>4. admitted => applies /\ Live(v, k) /\ Presented(v, k)
  BY Zenon DEF Admits, Presented, Applies
<1>5. Presented(v, k) =>
         /\ accepted'[e.receipt.nonce] # None
         /\ admitted <=> accepted'[e.receipt.nonce] = e.id
  <2>1. e.id \in EvidenceIDs
    BY <1>1, <1>2, AuthorizationAssumption, Zenon DEF TypeOK, Args
  <2>2. Presented(v, k) => e.receipt.nonce \in Nonces
    BY <1>1, <1>2, PresentedNonce, Zenon
  <2>3. Presented(v, k) => (admitted <=> accepted[e.receipt.nonce] \in {None, e.id})
    BY Zenon DEF Admits, Accepts
  <2>4. accepted \in [Nonces -> EvidenceIDs \cup {None}] /\ None \notin EvidenceIDs
    BY <1>2, AuthorizationAssumption DEF TypeOK
  <2>5. accepted' = IF admitted THEN [accepted EXCEPT ![e.receipt.nonce] = e.id] ELSE accepted
    BY <1>1
  <2> HIDE DEF e, admitted
  <2>. QED
    BY <2>1, <2>2, <2>3, <2>4, <2>5
<1>6. /\ EvidenceApplies(e, Args(v).expected, Args(v).trust, call'[v]) <=> applies
      /\ Presented(v, k)' <=> Presented(v, k)
      /\ Live(v, k)' <=> Live(v, k)
  <2>1. /\ EvidenceApplies(e, Args(v).expected, Args(v).trust, call'[v]) <=> applies
        /\ LiveApplies(e, Args(v).expected, Args(v).trust, call'[v])
              <=> LiveApplies(e, Args(v).expected, Args(v).trust, call[v])
    <3>1. Alike(call'[v], call[v])
      BY <1>1, Zenon
    <3>. QED
      BY <3>1, AppliesAlike, Zenon DEF Applies
  <2>2. Live(v, k)' <=> Live(v, k)
    BY <1>3, Zenon DEF Live
  <2>3. Presented(v, k)' <=> Presented(v, k)
    BY <1>3, <2>1, <2>2, Zenon DEF Presented, Applies
  <2>. QED
    BY <2>1, <2>2, <2>3, Zenon
<1>7. k \in Admissible(v)' <=> good
  <2>1. k \in Admissible(v)' <=>
            /\ EvidenceApplies(e, Args(v).expected, Args(v).trust, call'[v])
            /\ Live(v, k)' => Presented(v, k)' /\ accepted'[e.receipt.nonce] = e.id
    BY <1>1, <1>3, Zenon DEF Admissible, Live, Presented
  <2>. QED
    BY <1>4, <1>5, <1>6, <2>1, Zenon
<1>8. ASSUME NEW i \in 1..Len(evidence), i < k
      PROVE  /\ i \in Admissible(v)' <=> i \in Admissible(v)
             /\ Presented(v, i)' => accepted'[evidence[i].receipt.nonce] # None
  <2>1. Presented(v, i) => accepted[evidence[i].receipt.nonce] # None
    BY <1>0, <1>8, Zenon DEF SeenInv
  <2>2. /\ i \in Admissible(v)' <=> i \in Admissible(v)
        /\ Presented(v, i)' <=> Presented(v, i)
    BY <1>1, <1>2, <2>1, AdmissibleStays, Zenon
  <2>3. Presented(v, i) => evidence[i].receipt.nonce \in Nonces
    BY <1>1, <1>2, PresentedNonce, Zenon
  <2>. QED
    BY <1>2, <2>1, <2>2, <2>3, Zenon DEF Remembers
<1> HIDE DEF good, admitted, applies, e
<1>9. Seen(v)' = IF good THEN Seen(v) \cup {k} ELSE Seen(v)
  <2>1. \A i : i \in Seen(v) <=> i \in Admissible(v) /\ i < k
    BY <1>0, Zenon DEF Seen
  <2>2. \A i : i \in Seen(v)' <=> i \in Admissible(v)' /\ i < k + 1
    BY <1>1, Zenon DEF Seen
  <2>3. /\ \A i \in Admissible(v) : i \in 1..Len(evidence)
        /\ \A i \in Admissible(v)' : i \in 1..Len(evidence)
    BY <1>3, Zenon DEF Admissible
  <2>4. \A i \in 1..Len(evidence) : i < k + 1 <=> i < k \/ i = k
    BY <1>1
  <2>5. \A i : i \in Seen(v)' <=> i \in Seen(v) \/ (i = k /\ good)
    BY <1>1, <1>7, <1>8, <2>1, <2>2, <2>3, <2>4, Zenon
  <2>. QED
    BY <2>5, Zenon
<1>10. Projects(v, Seen(v))'
  <2>1. Seen(v) \in SUBSET Int /\ \A i \in Seen(v) : i < k
    BY <1>0, <1>1 DEF Seen, Admissible
  <2>2. \A i \in Seen(v) : evidence[i].tier # "unverified"
    <3>1. \A i \in Seen(v) : EvidenceApplies(evidence[i], Args(v).expected, Args(v).trust, call[v])
      BY Zenon DEF Seen, Admissible
    <3>. QED
      BY <3>1, AppliesTier, Zenon
  <2>3. call'[v].projection = IF good /\ (Live(v, k) \/ call[v].projection = Unverified)
                              THEN Shown(v, k) ELSE call[v].projection
    <3>1. call'[v].projection = IF Takes(v, k) THEN Shown(v, k) ELSE call[v].projection
      BY <1>1
    <3>2. Takes(v, k) <=> good /\ (Live(v, k) \/ call[v].projection = Unverified)
      BY <1>4, Zenon DEF Takes, good, admitted, applies
    <3>. QED
      BY <3>1, <3>2, Zenon
  <2>4. PICK seen \in SUBSET Int : seen = Seen(v)
    BY <2>1
  <2>5. PICK taken \in BOOLEAN : taken <=> good
    BY Zenon
  <2>6. Projects(v, seen)
    BY <2>4, Zenon DEF SeenInv
  <2>7. Projects(v, IF taken THEN seen \cup {k} ELSE seen)'
    BY <1>3, <2>1, <2>2, <2>3, <2>4, <2>5, <2>6, ProjectsNext, Zenon
  <2>8. Seen(v)' = IF taken THEN seen \cup {k} ELSE seen
    BY <1>9, <2>4, <2>5, Zenon
  <2>. QED
    BY <2>7, <2>8, Zenon DEF Projects
<1>11. ASSUME NEW i \in 1..Len(evidence), i < k + 1, Presented(v, i)'
       PROVE  accepted'[evidence[i].receipt.nonce] # None
  <2>1. CASE i = k
    BY <1>5, <1>6, <1>11, <2>1, Zenon DEF e
  <2>2. CASE i # k
    <3>1. i < k
      BY <1>11, <2>2
    <3>. QED
      BY <1>8, <1>11, <3>1, Zenon
  <2>. QED
    BY <2>1, <2>2
<1>12. call'[v].next = k + 1
  BY <1>1
<1>. QED
  BY <1>3, <1>10, <1>11, <1>12, Zenon DEF SeenInv

\* A call that has not looked at any evidence has seen nothing.
LEMMA NothingSeen ==
    ASSUME NEW v \in Verifiers, Len(Args(v).evidence) \in Nat, call[v].next = 1
    PROVE  Seen(v) = {} /\ \A i \in 1..Len(Args(v).evidence) : ~(i < call[v].next)
<1>1. \A i \in 1..Len(Args(v).evidence) : ~(i < call[v].next)
  OBVIOUS
<1>2. \A i \in Admissible(v) : i \in 1..Len(Args(v).evidence)
  BY Zenon DEF Admissible
<1>. QED
  BY <1>1, <1>2, Zenon DEF Seen

\* No loop has begun in the initial states.
LEMMA LoopInit == Init => LoopInv
<1> SUFFICES ASSUME Init, NEW v \in Verifiers, Args(v).kind = "verification"
             PROVE  PlaceInv(v) /\ SeenInv(v)
  BY DEF LoopInv
<1>1. call[v].pc = "idle" /\ call[v].next = 1 /\ call[v].projection = Unverified
  BY DEF Init, Waiting
<1>2. Len(Args(v).evidence) \in Nat
  BY EvidenceList, Zenon DEF Init
<1>3. Seen(v) = {} /\ \A i \in 1..Len(Args(v).evidence) : ~(i < call[v].next)
  BY <1>1, <1>2, NothingSeen, Zenon
<1>4. SeenInv(v)
  BY <1>1, <1>3, Zenon DEF SeenInv, Projects
<1>5. PlaceInv(v)
  BY <1>1 DEF PlaceInv
<1>. QED
  BY <1>4, <1>5

Moves(v, pc, code) == \/ call' = [call EXCEPT ![v].pc = pc]
                      \/ call' = [call EXCEPT ![v].pc = pc, ![v].code = code]

\* A call that moves only its place and its code carries the rest along.
LEMMA EndCarries ==
    ASSUME IInv, NEW v \in Verifiers, NEW pc, NEW code, Moves(v, pc, code)
    PROVE  \A w \in Verifiers : /\ Carried(call'[w], call[w])
                                /\ call'[w].pc = IF w = v THEN pc ELSE call[w].pc
<1>1. call \in [Verifiers -> CallType]
  BY DEF IInv, CallInv
<1>2. \A w \in Verifiers \ {v} : call'[w] = call[w]
  BY <1>1 DEF Moves
<1>3. \/ call'[v] = [call[v] EXCEPT !.pc = pc]
      \/ call'[v] = [[call[v] EXCEPT !.pc = pc] EXCEPT !.code = code]
  BY <1>1 DEF Moves
<1>4. call[v] \in CallType
  BY <1>1
<1>5. Carried(call'[v], call[v]) /\ call'[v].pc = pc
  BY <1>3, <1>4, Zenon DEF Carried, Alike, CallType
<1>6. \A w \in Verifiers \ {v} : Carried(call'[w], call[w])
  BY <1>2, Zenon DEF Carried, Alike
<1>. QED
  BY <1>2, <1>5, <1>6

\* A step that leaves the guard and carries the evaluation along keeps what it has seen.
LEMMA CarriedKeeps ==
    ASSUME IInv, LoopInv, request' = request, Remembers,
           NEW w \in Verifiers, Args(w).kind = "verification", Carried(call'[w], call[w])
    PROVE  SeenInv(w)'
<1>1. TypeOK /\ PlaceInv(w) /\ SeenInv(w)
  BY Zenon DEF IInv, LoopInv
<1>. QED
  BY <1>1, SeenStays, Zenon

\* The place of a loop that has not moved.
LEMMA PlaceStays ==
    ASSUME LoopInv, request' = request, NEW w \in Verifiers, Args(w).kind = "verification",
           call'[w].next = call[w].next, call'[w].pc = call[w].pc
    PROVE  PlaceInv(w)'
<1>1. Args(w)' = Args(w)
  BY DEF Args
<1>2. PlaceInv(w)
  BY Zenon DEF LoopInv
<1>. QED
  BY <1>1, <1>2, Zenon DEF PlaceInv

\* A call that starts has seen nothing.
LEMMA StartLoop ==
    ASSUME IInv, LoopInv, NEW v \in Verifiers, Start(v)
    PROVE  LoopInv'
<1>1. request' = request /\ accepted' = accepted /\ call[v].pc = "idle"
  BY DEF Start
<1>2. /\ \A w \in Verifiers \ {v} : call'[w] = call[w]
      /\ call'[v].next = call[v].next /\ call'[v].projection = call[v].projection
      /\ call'[v].pc \in {"project", "check"}
  BY DEF Start, IInv, CallInv, CallType
<1> SUFFICES ASSUME NEW w \in Verifiers, Args(w).kind = "verification"
             PROVE  PlaceInv(w)' /\ SeenInv(w)'
  BY <1>1, Zenon DEF LoopInv, Args
<1>3. CASE w # v
  <2>1. Carried(call'[w], call[w]) /\ call'[w] = call[w]
    BY <1>2, <1>3, Zenon DEF Carried, Alike
  <2>2. Remembers
    BY <1>1 DEF Remembers
  <2>. QED
    BY <1>1, <2>1, <2>2, CarriedKeeps, PlaceStays, Zenon
<1>4. CASE w = v
  <2>1. PlaceInv(v) /\ SeenInv(v) /\ Len(Args(v).evidence) \in Nat
    BY <1>4, EvidenceList, Zenon DEF LoopInv, IInv, TypeOK
  <2>2. call[v].next = 1
    BY <1>1, <2>1, Zenon DEF PlaceInv
  <2>3. Args(v)' = Args(v)
    BY <1>1 DEF Args
  <2>4. call[v].projection = Unverified
    BY <2>1, <2>2, NothingSeen, Zenon DEF SeenInv, Projects
  <2>5. \A i \in 1..Len(Args(v).evidence) : ~(i < call'[v].next)
    BY <1>2, <2>1, <2>2
  <2>6. Seen(v)' = {}
    BY <2>3, <2>5, Zenon DEF Seen, Admissible
  <2>7. SeenInv(v)'
    BY <1>2, <2>3, <2>4, <2>5, <2>6, Zenon DEF SeenInv, Projects
  <2>8. PlaceInv(v)'
    BY <1>2, <2>2 DEF PlaceInv
  <2>. QED
    BY <1>4, <2>7, <2>8
<1>. QED
  BY <1>3, <1>4

\* The nonce checks are no part of an evaluation.
LEMMA CheckSpendLoop ==
    ASSUME IInv, LoopInv, NEW v \in Verifiers, Check(v) \/ Spend(v)
    PROVE  LoopInv'
<1>1. request' = request /\ accepted' = accepted /\ call[v].pc \in {"check", "consume"}
  BY DEF Check, Spend
<1>2. \A w \in Verifiers : /\ Carried(call'[w], call[w])
                           /\ w # v => call'[w].pc = call[w].pc
  <2>1. PICK pc, code : Moves(v, pc, code)
    BY Zenon DEF Check, Spend, Grant, Finish, Moves
  <2>. QED
    BY <2>1, EndCarries, Zenon
<1>3. Args(v).kind # "verification"
  BY <1>1 DEF IInv, CallInv, Kinds
<1> SUFFICES ASSUME NEW w \in Verifiers, Args(w).kind = "verification"
             PROVE  PlaceInv(w)' /\ SeenInv(w)'
  BY <1>1, Zenon DEF LoopInv, Args
<1>4. Remembers
  BY <1>1 DEF Remembers
<1>5. call'[w].next = call[w].next /\ call'[w].pc = call[w].pc
  BY <1>2, <1>3, Zenon DEF Carried
<1>. QED
  BY <1>1, <1>2, <1>4, <1>5, CarriedKeeps, PlaceStays, Zenon

\* An evaluation ends when its loop has seen everything, or may not begin.
LEMMA ProjectLoop ==
    ASSUME IInv, LoopInv, NEW v \in Verifiers, Project(v)
    PROVE  LoopInv'
<1>1. /\ request' = request /\ accepted' = accepted /\ call[v].pc = "project"
      /\ call[v].next > Len(Args(v).evidence) \/ ~ExpectationValid(Args(v).expected)
  BY DEF Project
<1>2. \A w \in Verifiers : /\ Carried(call'[w], call[w])
                           /\ call'[w].pc = IF w = v THEN "done" ELSE call[w].pc
  <2>1. Moves(v, "done", "ok")
    BY Zenon DEF Project, Finish, Moves
  <2>. QED
    BY <2>1, EndCarries, Zenon
<1> SUFFICES ASSUME NEW w \in Verifiers, Args(w).kind = "verification"
             PROVE  PlaceInv(w)' /\ SeenInv(w)'
  BY <1>1, Zenon DEF LoopInv, Args
<1>3. Remembers
  BY <1>1 DEF Remembers
<1>4. SeenInv(w)'
  BY <1>1, <1>2, <1>3, CarriedKeeps, Zenon
<1>5. call'[w].next = call[w].next
  BY <1>2, Zenon DEF Carried
<1>6. CASE w = v
  <2>1. PlaceInv(w) /\ Args(w)' = Args(w)
    BY <1>1, Zenon DEF LoopInv, Args
  <2>2. call'[w].pc = "done"
    BY <1>2, <1>6
  <2>. QED
    BY <1>1, <1>4, <1>5, <1>6, <2>1, <2>2 DEF PlaceInv
<1>7. CASE w # v
  BY <1>1, <1>2, <1>4, <1>5, <1>7, PlaceStays, Zenon
<1>. QED
  BY <1>6, <1>7

\* One iteration of one evaluation keeps what every evaluation has seen.
LEMMA CandidateLoop ==
    ASSUME IInv, LoopInv, NEW v \in Verifiers, Candidate(v)
    PROVE  LoopInv'
<1>1. /\ request' = request /\ ExpectationValid(Args(v).expected) /\ call'[v].pc = "project"
      /\ \A w \in Verifiers \ {v} : call'[w] = call[w]
  BY CandidateShape, Zenon
<1>2. Remembers
  BY CandidateGuard, Zenon
<1> SUFFICES ASSUME NEW w \in Verifiers, Args(w).kind = "verification"
             PROVE  PlaceInv(w)' /\ SeenInv(w)'
  BY <1>1, Zenon DEF LoopInv, Args
<1>3. CASE w # v
  <2>1. Carried(call'[w], call[w]) /\ call'[w] = call[w]
    BY <1>1, <1>3, Zenon DEF Carried, Alike
  <2>. QED
    BY <1>1, <1>2, <2>1, CarriedKeeps, PlaceStays, Zenon
<1>4. CASE w = v
  <2>1. SeenInv(v)'
    BY <1>4, CandidateSeen, Zenon DEF LoopInv
  <2>2. Args(v)' = Args(v)
    BY <1>1 DEF Args
  <2>3. PlaceInv(v)'
    BY <1>1, <2>2 DEF PlaceInv
  <2>. QED
    BY <1>4, <2>1, <2>3
<1>. QED
  BY <1>3, <1>4

\* The clock and the control plane touch no evaluation that has begun.
LEMMA EnvironmentLoop ==
    ASSUME IInv, LoopInv, Tick \/ (\E id \in EvidenceIDs : Withdraw(id)) \/ Rotate \/ UNCHANGED vars
    PROVE  LoopInv'
<1>1. request' = request /\ accepted' = accepted /\ call' = call
  BY Zenon DEF Tick, Withdraw, Rotate, vars
<1> SUFFICES ASSUME NEW w \in Verifiers, Args(w).kind = "verification"
             PROVE  PlaceInv(w)' /\ SeenInv(w)'
  BY <1>1, Zenon DEF LoopInv, Args
<1>2. Remembers
  BY <1>1 DEF Remembers
<1>3. Carried(call'[w], call[w])
  BY <1>1, Zenon DEF Carried, Alike
<1>. QED
  BY <1>1, <1>2, <1>3, CarriedKeeps, PlaceStays, Zenon

\* The best of the positions, as the definition of the projection has it.
LEMMA BestProjected ==
    ASSUME NEW v \in Verifiers, NEW good \in SUBSET Int, Projects(v, good),
           \A i \in good : Args(v).evidence[i].tier # "unverified"
    PROVE  ProjectsBest(v, good)
<1> DEFINE live == {i \in good : Args(v).evidence[i].tier = "live_verified"}
           best == IF live # {} THEN {i \in live : \A j \in live : j <= i}
                   ELSE {i \in good : \A j \in good : i <= j}
<1>1. \A i : i \in live <=> i \in good /\ Live(v, i)
  BY Zenon DEF Live
<1>2. \A i \in good : Shown(v, i) # Unverified
  BY DEF Shown, Unverified
<1> HIDE DEF live
<1>3. ASSUME good = {}
      PROVE  best = {}
  BY <1>1, <1>3, Zenon
<1>4. ASSUME NEW b \in good, call[v].projection = Shown(v, b),
             Live(v, b), \A j \in good : Live(v, j) => j <= b
      PROVE  best = {b}
  <2>1. b \in live /\ live \subseteq Int /\ \A j \in live : j <= b
    BY <1>1, <1>4, Zenon
  <2>2. \A i : i \in best <=> i \in live /\ \A j \in live : j <= i
    BY <2>1, Zenon
  <2>3. \A i \in live : (\A j \in live : j <= i) => i = b
    BY <2>1
  <2>. QED
    BY <2>1, <2>2, <2>3, Zenon
<1>5. ASSUME NEW b \in good, call[v].projection = Shown(v, b),
             \A j \in good : ~Live(v, j) /\ b <= j
      PROVE  best = {b}
  <2>1. live = {}
    BY <1>1, <1>5, Zenon
  <2>2. \A i : i \in best <=> i \in good /\ \A j \in good : i <= j
    BY <2>1, Zenon
  <2>3. \A j \in good : b <= j
    BY <1>5, Zenon
  <2>4. \A i \in good : (\A j \in good : i <= j) => i = b
    BY <2>3
  <2>. QED
    BY <2>2, <2>3, <2>4, Zenon
<1> HIDE DEF best
<1>6. ASSUME NEW b \in good, call[v].projection = Shown(v, b), best = {b}
      PROVE  /\ best = {} <=> call[v].projection = Unverified
             /\ \A i \in best : call[v].projection = Shown(v, i)
  BY <1>2, <1>6, Zenon
<1>7. /\ best = {} <=> call[v].projection = Unverified
      /\ \A i \in best : call[v].projection = Shown(v, i)
  <2>1. CASE good = {} /\ call[v].projection = Unverified
    BY <1>3, <2>1, Zenon
  <2>2. CASE \E b \in good : /\ call[v].projection = Shown(v, b)
                             /\ Live(v, b) /\ \A j \in good : Live(v, j) => j <= b
    BY <1>4, <1>6, <2>2, Zenon
  <2>3. CASE \E b \in good : /\ call[v].projection = Shown(v, b)
                             /\ \A j \in good : ~Live(v, j) /\ b <= j
    BY <1>5, <1>6, <2>3, Zenon
  <2>. QED
    BY <2>1, <2>2, <2>3, Zenon DEF Projects
<1>. QED
  BY <1>7, Zenon DEF ProjectsBest, Shown, best, live

\* VerificationExpectation.Validate accepts a whole live scope, or none.
LEMMA ValidExpectation ==
    ASSUME NEW x
    PROVE  ExpectationValid(x) <=> SubjectValid(x.subject) /\ WholeScope(x)
<1>1. LiveFields(x) = {None} <=> ~HasLiveScope(x)
  BY Zenon DEF LiveFields, HasLiveScope
<1>2. None \notin LiveFields(x) => HasLiveScope(x)
  BY Zenon DEF LiveFields, HasLiveScope
<1>. QED
  BY <1>1, <1>2, Zenon DEF ExpectationValid, WholeScope

\* An evaluation that ends has seen all that is admissible.
LEMMA LoopRight ==
    ASSUME IInv, LoopInv
    PROVE  ProjectionRight
<1> SUFFICES ASSUME NEW v \in Verifiers, Args(v).kind = "verification", call[v].pc = "done"
             PROVE  ProjectsBest(v, IF ExpectationValid(Args(v).expected) THEN Admissible(v) ELSE {})
  BY ValidExpectation, Zenon DEF ProjectionRight
<1> DEFINE good == IF ExpectationValid(Args(v).expected) THEN Admissible(v) ELSE {}
<1>1. PlaceInv(v) /\ SeenInv(v) /\ Len(Args(v).evidence) \in Nat
  BY EvidenceList, Zenon DEF LoopInv, IInv, TypeOK
<1>2. \A i \in Admissible(v) : /\ i \in 1..Len(Args(v).evidence)
                               /\ EvidenceApplies(Args(v).evidence[i], Args(v).expected, Args(v).trust, call[v])
  BY Zenon DEF Admissible
<1>3. Seen(v) = good
  <2>1. CASE ExpectationValid(Args(v).expected)
    <3>1. call[v].next > Len(Args(v).evidence) /\ call[v].next \in Nat
      BY <1>1, <2>1 DEF PlaceInv, IInv, CallInv, CallType
    <3>2. \A i \in 1..Len(Args(v).evidence) : i < call[v].next
      BY <1>1, <3>1
    <3>. QED
      BY <1>2, <2>1, <3>2, Zenon DEF Seen
  <2>2. CASE ~ExpectationValid(Args(v).expected)
    <3>1. call[v].next = 1
      BY <1>1, <2>2, Zenon DEF PlaceInv
    <3>. QED
      BY <1>1, <2>2, <3>1, NothingSeen, Zenon
  <2>. QED
    BY <2>1, <2>2
<1>4. good \subseteq Admissible(v)
  BY <1>3, Zenon DEF Seen
<1> HIDE DEF good
<1>5. good \in SUBSET Int
  BY <1>2, <1>4
<1>6. \A i \in good : Args(v).evidence[i].tier # "unverified"
  BY <1>2, <1>4, AppliesTier, Zenon
<1>7. Projects(v, good)
  BY <1>1, <1>3, Zenon DEF SeenInv
<1>8. ProjectsBest(v, good)
  BY <1>5, <1>6, <1>7, BestProjected, Zenon
<1>. QED
  BY <1>8 DEF good

\* A finished evaluation projects the last admissible live evidence, else the first
\* admissible contract evidence, else nothing, however its iterations interleave
\* with other callers' admissions, and nothing for a live scope that is not complete
\* (EvaluateVerification, VerificationExpectation.Validate).
THEOREM ProjectionIsRight == Spec => []ProjectionRight
<1>1. Init => LoopInv
  BY LoopInit
<1>2. IInv /\ LoopInv /\ [Next]_vars => LoopInv'
  BY StartLoop, CheckSpendLoop, CandidateLoop, ProjectLoop, EnvironmentLoop, Zenon DEF Next
<1>3. IInv /\ LoopInv => ProjectionRight
  BY LoopRight, Zenon
<1>. QED
  BY <1>1, <1>2, <1>3, Invariance, PTL DEF Spec
=============================================================================
