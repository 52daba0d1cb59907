--------------------------- MODULE Authorization ---------------------------
(* The protocol package's authorization checks: approval decisions          *)
(* (approval.go), signed custody and isolation evidence (custody.go,        *)
(* isolation.go) and the verification projection (verification.go), called  *)
(* concurrently by Verifiers that share one nonce store and one replay      *)
(* guard.  A call captures its clock and its policy when it starts; its     *)
(* checks read only what it captured; what it shares is the atomic Consume  *)
(* or Accept that ends it.                                                  *)
(*                                                                          *)
(* Documents are records.  "form" stands for the field checks of the        *)
(* Validate methods (identifiers, digests, revisions, references); "scope"  *)
(* stands for the fields two bindings must agree on beside the ones a check *)
(* names.  Lists may come in any order and are sorted before they are       *)
(* signed.  A signature value is what was signed: the key and the preimage, *)
(* which starts with the purpose.                                           *)
EXTENDS Integers, Sequences, FiniteSets, Functions, TLC

CONSTANTS
    Verifiers,      \* the concurrent callers
    Scripts,        \* the requests the verifiers may be given: functions on Verifiers
    Argument,       \* the arguments of each request
    Nonces,         \* approval, evidence and run nonces
    EvidenceIDs,    \* the evidence that may be revoked or superseded
    Issued,         \* the documents the gateways and Mission really signed
    MaxTime,        \* bound on the clock
    MaxEpoch,       \* bound on the trust epoch
    None

VARIABLES
    now,            \* the clock the callers read
    epoch,          \* policy.CurrentTrustEpoch
    withdrawn,      \* policy.RevokedEvidenceIDs and SupersededEvidenceIDs
    consumed,       \* nonces the NonceConsumer has seen
    accepted,       \* VerificationReplayGuard: run nonce -> evidence ID
    request,        \* request[v]: the request v was given
    call,           \* call[v]: where v's call is and what it captured
    grants          \* history: the calls that ended without an error

vars == <<now, epoch, withdrawn, consumed, accepted, request, call, grants>>

Kinds == {"approval", "custody-evidence", "isolation-evidence"}
Unverified == [tier |-> "unverified", id |-> None]
Waiting == [pc |-> "idle", at |-> 0, epoch |-> 0, withdrawn |-> {}, next |-> 1,
            code |-> None, projection |-> Unverified]

Init == /\ now = 1
        /\ epoch = 1
        /\ withdrawn = {}
        /\ consumed = {}
        /\ accepted = [n \in Nonces |-> None]
        /\ request \in Scripts
        /\ call = [v \in Verifiers |-> Waiting]
        /\ grants = {}

(************************** lists and signatures ***************************)

\* validateUniqueStrings, and the check that the list is not empty.
UniqueStrings(s) == s # <<>> /\ IsInjective(s)

SortedStrings(s) == SortSeq(s, <)
EqualStringSets(s, t) == Len(s) = Len(t) /\ SortedStrings(s) = SortedStrings(t)

\* signingPreimage: the purpose, then the document.
SigningPreimage(purpose, d) == <<purpose, d>>

\* Signature.validate: algorithm and lengths are in "form".
SignatureValid(d, purpose) == d.purpose = purpose

\* ed25519.Verify (external): a value is valid for the key and bytes it was made of.
Ed25519Verify(key, payload, value) == value = <<key, payload>>

TimesValid(d) == d.issued < d.expires

(******************************* approvals *********************************)

ApprovalBindingValid(b) == b.form /\ UniqueStrings(b.scopes)
EqualApprovalBinding(a, b) == /\ [a EXCEPT !.scopes = <<>>] = [b EXCEPT !.scopes = <<>>]
                              /\ EqualStringSets(a.scopes, b.scopes)

DecisionValid(d) == /\ d.form /\ ApprovalBindingValid(d.binding)
                    /\ d.outcome \in {"approved", "rejected", "expired"}

\* ValidateApprovalDecision up to its last check; "ok" goes on to the nonce.
ApprovalCode(r, at) ==
    LET d == r.document
        expired == at >= r.expected.expires \/ d.outcome = "expired"
        misdated == d.decided > at \/ d.decided > r.expected.expires
    IN IF ~DecisionValid(d) \/ ~ApprovalBindingValid(r.expected) THEN "invalid_argument"
       ELSE IF ~EqualApprovalBinding(d.binding, r.expected) THEN "conflict"
       ELSE IF expired THEN "expired"
       ELSE IF misdated THEN "invalid_argument"
       ELSE IF d.outcome # "approved" THEN "permission_denied"
       ELSE "ok"

(*************************** signed evidence *******************************)

\* verifyEvidenceSignature
EvidenceSignatureCode(d, payload, trust, at) ==
    IF at < d.issued THEN "unauthenticated"
    ELSE IF at >= d.expires THEN "expired"
    ELSE IF <<d.issuer, d.key>> # <<d.binding.gateway, d.binding.key>> THEN "unauthenticated"
    ELSE IF <<d.issuer, d.key, d.purpose>> \notin trust THEN "unauthenticated"
    ELSE IF ~Ed25519Verify(d.key, payload, d.value) THEN "unauthenticated"
    ELSE "ok"

CustodyBindingValid(b) == b.form /\ UniqueStrings(b.controls)
CustodyValid(d) == /\ d.form /\ CustodyBindingValid(d.binding) /\ TimesValid(d)
                   /\ SignatureValid(d, "custody-evidence")
EqualCustodyBinding(a, b) == /\ [a EXCEPT !.controls = <<>>] = [b EXCEPT !.controls = <<>>]
                             /\ EqualStringSets(a.controls, b.controls)

CustodySigningBytes(d) ==
    SigningPreimage("custody-evidence",
                    [d EXCEPT !.value = None, !.binding.controls = SortedStrings(@)])

\* VerifyCustody up to the nonce.
VerifyCustody(r, at) ==
    LET d == r.document
    IN IF ~CustodyValid(d) \/ ~CustodyBindingValid(r.expected) THEN "invalid_argument"
       ELSE IF ~EqualCustodyBinding(d.binding, r.expected) THEN "conflict"
       ELSE EvidenceSignatureCode(d, CustodySigningBytes(d), r.trust, at)

\* Isolation evidence has the fields of custody evidence and its own purpose.
IsolationBindingValid(b) == b.form /\ UniqueStrings(b.controls)
IsolationValid(d) == /\ d.form /\ IsolationBindingValid(d.binding) /\ TimesValid(d)
                     /\ SignatureValid(d, "isolation-evidence")
EqualIsolationBinding(a, b) == /\ [a EXCEPT !.controls = <<>>] = [b EXCEPT !.controls = <<>>]
                               /\ EqualStringSets(a.controls, b.controls)
IsolationSigningBytes(d) ==
    SigningPreimage("isolation-evidence",
                    [d EXCEPT !.value = None, !.binding.controls = SortedStrings(@)])
VerifyIsolation(r, at) ==
    LET d == r.document
    IN IF ~IsolationValid(d) \/ ~IsolationBindingValid(r.expected) THEN "invalid_argument"
       ELSE IF ~EqualIsolationBinding(d.binding, r.expected) THEN "conflict"
       ELSE EvidenceSignatureCode(d, IsolationSigningBytes(d), r.trust, at)

CheckCode(r, at) == IF r.kind = "approval" THEN ApprovalCode(r, at)
                    ELSE IF r.kind = "custody-evidence" THEN VerifyCustody(r, at)
                    ELSE VerifyIsolation(r, at)

NonceOf(r) == IF r.kind = "approval" THEN r.expected.nonce ELSE r.document.nonce

\* Callers name nonces and evidence of the right sets; None stands for what is absent.
ASSUME AuthorizationAssumption ==
    /\ None \notin EvidenceIDs
    /\ MaxTime \in Nat \ {0} /\ MaxEpoch \in Nat \ {0}
    /\ \A s \in Scripts, v \in Verifiers :
          /\ Argument[s[v]].kind \in Kinds \cup {"verification"}
          /\ Argument[s[v]].kind \in Kinds => NonceOf(Argument[s[v]]) \in Nonces
          /\ Argument[s[v]].kind = "verification" =>
                /\ Argument[s[v]].expected.nonce \in Nonces \cup {None}
                /\ Len(Argument[s[v]].evidence) \in Nat
                /\ \A i \in 1..Len(Argument[s[v]].evidence) : Argument[s[v]].evidence[i].id \in EvidenceIDs

(************************ verification evidence ****************************)

\* A subject's lists are its capabilities, its cases and its data modes.
SubjectValid(s) == s.form /\ \A i \in DOMAIN s.lists : UniqueStrings(s.lists[i])
CanonicalSubject(s) == [s EXCEPT !.lists = [i \in DOMAIN @ |-> SortedStrings(@[i])]]
EqualSubject(s, t) == CanonicalSubject(s) = CanonicalSubject(t)

Purpose(e) == IF e.tier = "live_verified" THEN "live-verification" ELSE "contract-verification"

\* LiveVerificationAuthorization and LiveVerificationReceipt: Validate, SigningBytes.
AuthorizationValid(a) == /\ a.form /\ SubjectValid(a.subject) /\ TimesValid(a) /\ a.epoch > 0
                         /\ SignatureValid(a, "live-run-authorization")
CanonicalLive(d) == [d EXCEPT !.subject = CanonicalSubject(@)]
AuthorizationBytes(a) ==
    SigningPreimage("live-run-authorization", [CanonicalLive(a) EXCEPT !.value = None])
ReceiptValid(r) == /\ r.form /\ SubjectValid(r.subject) /\ r.result \in {"passed", "failed"}
                   /\ SignatureValid(r, "live-run-receipt") /\ r.issuer = r.gateway
ReceiptBytes(r) == SigningPreimage("live-run-receipt", [CanonicalLive(r) EXCEPT !.value = None])

\* liveReceiptMatchesAuthorization, liveComponentsMatch and
\* liveAuthorizationMatchesExpectation; "scope" stands for the tenant, the
\* correlation, the authorization ID, the budget and the credential.
ReceiptMatches(r, a) == /\ <<r.scope, r.nonce>> = <<a.scope, a.nonce>>
                        /\ EqualSubject(r.subject, a.subject)
                        /\ <<r.gateway, r.key>> = <<a.gateway, a.gatewayKey>>
ComponentsMatch(e) == /\ e.epoch = e.authorization.epoch
                      /\ e.result = e.receipt.result
                      /\ EqualSubject(e.subject, e.authorization.subject)
                      /\ ReceiptMatches(e.receipt, e.authorization)
AuthorizationExpected(a, x) == /\ <<a.scope, a.nonce>> = <<x.scope, x.nonce>>
                               /\ EqualSubject(a.subject, x.subject)
                               /\ <<a.gateway, a.gatewayKey>> = <<x.gateway, x.key>>

LiveRecordsValid(e) ==
    LET a == e.authorization
        r == e.receipt
    IN /\ a # None /\ r # None
       /\ AuthorizationValid(a) /\ ReceiptValid(r) /\ ComponentsMatch(e)
       /\ a.issued <= r.issued /\ r.issued < a.expires /\ r.issued <= e.issued

\* VerificationEvidence.validateFields and Validate
VerificationFieldsValid(e) ==
    /\ e.form /\ e.tier \in {"native_contract_tested", "live_verified"}
    /\ SubjectValid(e.subject) /\ e.result \in {"passed", "failed"}
    /\ TimesValid(e) /\ e.epoch > 0
    /\ IF e.tier = "live_verified" THEN LiveRecordsValid(e)
       ELSE e.authorization = None /\ e.receipt = None
VerificationValid(e) == VerificationFieldsValid(e) /\ SignatureValid(e, Purpose(e))

\* canonicalVerificationEvidence and SigningBytes
CanonicalEvidence(e) ==
    [e EXCEPT !.subject = CanonicalSubject(@),
              !.authorization = IF @ = None THEN None ELSE CanonicalLive(@),
              !.receipt = IF @ = None THEN None ELSE CanonicalLive(@)]
VerificationBytes(e) == SigningPreimage(Purpose(e), [CanonicalEvidence(e) EXCEPT !.value = None])

\* VerificationExpectation: any live field makes a live scope, which must then be
\* complete.  "form" also says that the fields in "scope" are all there.
LiveFields(x) == {x.scope, x.gateway, x.key, x.nonce}
HasLiveScope(x) == \E f \in LiveFields(x) : f # None
ExpectationValid(x) == /\ SubjectValid(x.subject)
                       /\ HasLiveScope(x) => x.form /\ None \notin LiveFields(x)

\* Mutant: a trusted issuer's signature is not verified against the document.
TrustsIssuer(d, purpose, trust, payload) ==
    SignatureValid(d, purpose) /\ <<d.issuer, d.key, purpose>> \in trust

VerifyTrustedSignature(d, purpose, trust, payload) ==
    /\ SignatureValid(d, purpose)
    /\ <<d.issuer, d.key, purpose>> \in trust
    /\ Ed25519Verify(d.key, payload, d.value)

\* verificationApplies before the tier is looked at.
EvidenceApplies(e, x, trust, c) ==
    /\ VerificationValid(e)
    /\ e.result = "passed" /\ e.epoch = c.epoch
    /\ e.issued <= c.at /\ c.at < e.expires
    /\ EqualSubject(e.subject, x.subject)
    /\ e.id \notin c.withdrawn
    /\ VerifyTrustedSignature(e, Purpose(e), trust, VerificationBytes(e))

\* ... and, for a live run, up to the replay guard.
LiveApplies(e, x, trust, c) ==
    LET a == e.authorization
        r == e.receipt
    IN /\ HasLiveScope(x)
       /\ AuthorizationExpected(a, x) /\ ReceiptMatches(r, a)
       /\ a.issued <= c.at /\ c.at < a.expires /\ r.issued <= c.at
       /\ VerifyTrustedSignature(a, "live-run-authorization", trust, AuthorizationBytes(a))
       /\ r.issuer = r.gateway
       /\ VerifyTrustedSignature(r, "live-run-receipt", trust, ReceiptBytes(r))

(******************************** calls ************************************)

Args(v) == Argument[request[v]]
Finish(v, code) == call' = [call EXCEPT ![v].pc = "done", ![v].code = code]

\* The caller reads its clock and its policy, then calls.
Start(v) ==
    /\ call[v].pc = "idle"
    /\ call' = [call EXCEPT ![v].at = now, ![v].epoch = epoch, ![v].withdrawn = withdrawn,
                            ![v].pc = IF Args(v).kind = "verification" THEN "project" ELSE "check"]
    /\ UNCHANGED <<now, epoch, withdrawn, consumed, accepted, request, grants>>

\* nonces.Consume (external): adds the nonce; the caller looks whether it was new.
Consume(n) == consumed' = consumed \cup {n}

\* Mutant: the nonce is consumed before the decision is looked at.
CheckConsumes(v) ==
    /\ call[v].pc = "check"
    /\ LET code == CheckCode(Args(v), call[v].at)
       IN IF code = "ok" THEN call' = [call EXCEPT ![v].pc = "consume"] /\ UNCHANGED consumed
          ELSE Finish(v, code) /\ Consume(NonceOf(Args(v)))
    /\ UNCHANGED <<now, epoch, withdrawn, accepted, request, grants>>

\* The checks of ValidateApprovalDecision, VerifyCustody or VerifyIsolation.
Check(v) ==
    /\ call[v].pc = "check"
    /\ LET code == CheckCode(Args(v), call[v].at)
       IN IF code = "ok" THEN call' = [call EXCEPT ![v].pc = "consume"] ELSE Finish(v, code)
    /\ UNCHANGED <<now, epoch, withdrawn, consumed, accepted, request, grants>>

Grant(v, n) == /\ Consume(n)
               /\ grants' = grants \cup {[by |-> v, kind |-> Args(v).kind, nonce |-> n]}
               /\ Finish(v, "ok")

\* Mutant: what Consume answers is ignored.
SpendUnchecked(v) == /\ call[v].pc = "consume"
                     /\ Grant(v, NonceOf(Args(v)))
                     /\ UNCHANGED <<now, epoch, withdrawn, accepted, request>>

\* The call ends with the nonce: authorized when it was new, a replay otherwise.
Spend(v) ==
    LET n == NonceOf(Args(v))
    IN /\ call[v].pc = "consume"
       /\ \/ n \in consumed /\ Finish(v, "replay") /\ UNCHANGED <<consumed, grants>>
          \/ n \notin consumed /\ Grant(v, n)
       /\ UNCHANGED <<now, epoch, withdrawn, accepted, request>>

\* Mutant: the guard admits any evidence for a nonce it knows.
AcceptsAny(n, id) == TRUE

\* replay.Accept (external): bound to the first evidence ID presented with it.
Accepts(n, id) == accepted[n] \in {None, id}

\* Mutant: the last evidence that applies wins, whatever its tier.
CandidateLast(v) ==
    LET c == call[v]
        x == Args(v).expected
        e == Args(v).evidence[c.next]
        live == e.tier = "live_verified"
        chosen == /\ EvidenceApplies(e, x, Args(v).trust, c)
                  /\ live => LiveApplies(e, x, Args(v).trust, c) /\ Accepts(e.receipt.nonce, e.id)
    IN /\ c.pc = "project" /\ ExpectationValid(x) /\ c.next <= Len(Args(v).evidence)
       /\ accepted' = IF chosen /\ live THEN [accepted EXCEPT ![e.receipt.nonce] = e.id] ELSE accepted
       /\ call' = [call EXCEPT ![v].next = @ + 1,
                               ![v].projection = IF chosen THEN [tier |-> e.tier, id |-> e.id] ELSE @]
       /\ UNCHANGED <<now, epoch, withdrawn, consumed, request, grants>>

\* One iteration of EvaluateVerification's loop.
Candidate(v) ==
    LET c == call[v]
        x == Args(v).expected
        e == Args(v).evidence[c.next]
        applies == EvidenceApplies(e, x, Args(v).trust, c)
        live == e.tier = "live_verified"
        admitted == applies /\ live /\ LiveApplies(e, x, Args(v).trust, c)
                    /\ Accepts(e.receipt.nonce, e.id)
        chosen == admitted \/ (applies /\ ~live /\ c.projection = Unverified)
    IN /\ c.pc = "project"
       /\ ExpectationValid(x)
       /\ c.next <= Len(Args(v).evidence)
       /\ accepted' = IF admitted THEN [accepted EXCEPT ![e.receipt.nonce] = e.id] ELSE accepted
       /\ call' = [call EXCEPT ![v].next = @ + 1,
                               ![v].projection = IF chosen THEN [tier |-> e.tier, id |-> e.id] ELSE @]
       /\ UNCHANGED <<now, epoch, withdrawn, consumed, request, grants>>

\* EvaluateVerification returns what it has projected.
Project(v) ==
    /\ call[v].pc = "project"
    /\ call[v].next > Len(Args(v).evidence) \/ ~ExpectationValid(Args(v).expected)
    /\ Finish(v, "ok")
    /\ UNCHANGED <<now, epoch, withdrawn, consumed, accepted, request, grants>>

(***************************** environment *********************************)

\* Only a call that has not started reads the clock and the policy.
Observers(kinds) == {v \in Verifiers : call[v].pc = "idle" /\ Args(v).kind \in kinds}

Tick == /\ now < MaxTime
        /\ Observers(Kinds \cup {"verification"}) # {}
        /\ now' = now + 1
        /\ UNCHANGED <<epoch, withdrawn, consumed, accepted, request, call, grants>>

\* The control plane revokes or supersedes evidence, or moves the trust epoch.
Withdraw(id) == /\ id \notin withdrawn
                /\ Observers({"verification"}) # {}
                /\ withdrawn' = withdrawn \cup {id}
                /\ UNCHANGED <<now, epoch, consumed, accepted, request, call, grants>>
Rotate == /\ epoch < MaxEpoch
          /\ Observers({"verification"}) # {}
          /\ epoch' = epoch + 1
          /\ UNCHANGED <<now, withdrawn, consumed, accepted, request, call, grants>>

Next == \/ \E v \in Verifiers : Start(v) \/ Check(v) \/ Spend(v) \/ Candidate(v) \/ Project(v)
        \/ Tick
        \/ \E id \in EvidenceIDs : Withdraw(id)
        \/ Rotate

Spec == Init /\ [][Next]_vars

(****************************** properties *********************************)

Codes == {None, "ok", "invalid_argument", "conflict", "expired", "permission_denied",
          "unauthenticated", "replay"}

\* The variables' types; a call that has started works with a clock reading that
\* is not ahead of the clock and with a policy that is not ahead of the control
\* plane's (the "now" and "policy" arguments).
TypeOK == /\ now \in 1..MaxTime /\ epoch \in 1..MaxEpoch
          /\ withdrawn \subseteq EvidenceIDs /\ consumed \subseteq Nonces
          /\ accepted \in [Nonces -> EvidenceIDs \cup {None}]
          /\ request \in Scripts
          /\ \A v \in Verifiers : /\ call[v].pc \in {"idle", "check", "consume", "project", "done"}
                                  /\ call[v].code \in Codes
                                  /\ call[v].pc # "idle" => call[v].at \in 1..now
                                  /\ call[v].withdrawn \subseteq withdrawn
          /\ \A g \in grants : g.by \in Verifiers /\ g.kind \in Kinds /\ g.nonce \in Nonces

\* A nonce authorizes at most one call, whoever presents it and in whatever order
\* concurrent calls check and consume it (approval.go:141, custody.go:218).
SingleUse == \A g, h \in grants : g.nonce = h.nonce => g = h

\* A refused call leaves its nonce unspent: exactly the nonces of authorized calls
\* are consumed, so that presenting a rejected, expired or mismatched decision
\* never makes the good one a replay (Consume comes last in all three checks).
RefusalKeepsNonce == consumed = {g.nonce : g \in grants}

\* A document with its lists as sets: what its issuer meant by it.
UnorderedSubject(s) == [s EXCEPT !.lists = [i \in DOMAIN @ |-> Range(@[i])]]
Unordered(d) ==
    IF "binding" \in DOMAIN d THEN [d EXCEPT !.binding.controls = Range(@)]
    ELSE [d EXCEPT !.subject = UnorderedSubject(@)]
Meant(d) == IF "tier" \notin DOMAIN d \/ d.authorization = None THEN Unordered(d)
            ELSE [Unordered(d) EXCEPT !.authorization = Unordered(@), !.receipt = Unordered(@)]
Genuine(d) == \E i \in Issued : DOMAIN i = DOMAIN d /\ i.purpose = d.purpose /\ Meant(i) = Meant(d)

ProjectedFrom(v) == {i \in 1..Len(Args(v).evidence) : Args(v).evidence[i].id = call[v].projection.id}

\* What is authorized was really issued: granted evidence is a document its gateway
\* signed for that purpose, unaltered but for the order of its lists, projected
\* evidence was signed by Mission and its live records by Mission and by the
\* gateway, and a granted approval approves what is expected.
GrantsGenuine ==
    /\ \A g \in grants : LET d == Args(g.by).document
                         IN IF g.kind = "approval"
                            THEN /\ d.outcome = "approved"
                                 /\ d.binding.scope = Args(g.by).expected.scope
                                 /\ Range(d.binding.scopes) = Range(Args(g.by).expected.scopes)
                            ELSE Genuine(d) /\ d.purpose = g.kind
    /\ \A v \in Verifiers : call[v].projection # Unverified =>
           \E i \in ProjectedFrom(v) :
               LET e == Args(v).evidence[i]
               IN Genuine(e) /\ (e.tier = "live_verified" => Genuine(e.authorization) /\ Genuine(e.receipt))

\* Genuine evidence of the expected kind and binding, presented in time, is refused
\* only as a replay, in whatever order its lists come (SigningBytes and the
\* equality of bindings both sort).
GenuineAccepted ==
    \A v \in Verifiers :
        LET r == Args(v)
            d == r.document
        IN /\ r.kind \in {"custody-evidence", "isolation-evidence"} /\ call[v].pc = "done"
           /\ d.purpose = r.kind /\ Genuine(d)
           /\ [d.binding EXCEPT !.controls = Range(@)] = [r.expected EXCEPT !.controls = Range(@)]
           /\ d.issued <= call[v].at /\ call[v].at < d.expires
           => call[v].code \in {"ok", "replay"}

\* All live projections for one run nonce name one evidence ID, across callers,
\* clocks, policies and the order of the evidence lists (verification.go:388).
RunBound ==
    \A v, w \in Verifiers :
        /\ Args(v).kind = "verification" /\ Args(w).kind = "verification"
        /\ call[v].projection.tier = "live_verified" /\ call[w].projection.tier = "live_verified"
        /\ Args(v).expected.nonce = Args(w).expected.nonce
        => call[v].projection.id = call[w].projection.id

\* What an evaluation should choose from: evidence that applies, and for a live run
\* evidence to which the replay guard has bound the run.
Admissible(v) ==
    {i \in 1..Len(Args(v).evidence) :
        LET e == Args(v).evidence[i]
        IN /\ EvidenceApplies(e, Args(v).expected, Args(v).trust, call[v])
           /\ e.tier = "live_verified" =>
                /\ LiveApplies(e, Args(v).expected, Args(v).trust, call[v])
                /\ accepted[e.receipt.nonce] = e.id}

\* The projection is the last live evidence of good, else the first contract
\* evidence of good, else nothing.
ProjectsBest(v, good) ==
    LET live == {i \in good : Args(v).evidence[i].tier = "live_verified"}
        best == IF live # {} THEN {i \in live : \A j \in live : j <= i}
                ELSE {i \in good : \A j \in good : i <= j}
    IN /\ best = {} <=> call[v].projection = Unverified
       /\ \A i \in best : call[v].projection =
              [tier |-> Args(v).evidence[i].tier, id |-> Args(v).evidence[i].id]

\* An expectation names the whole live scope or nothing of it.
WholeScope(x) == LiveFields(x) = {None} \/ (x.form /\ None \notin LiveFields(x))

\* A finished evaluation projects what its definition says: the last admissible
\* live evidence, else the first admissible contract evidence, else nothing; and
\* nothing at all for a live scope that is not complete (EvaluateVerification's
\* loop, interleaved with other callers' admissions).
ProjectionRight ==
    \A v \in Verifiers : Args(v).kind = "verification" /\ call[v].pc = "done" =>
        LET x == Args(v).expected
        IN ProjectsBest(v, IF SubjectValid(x.subject) /\ WholeScope(x) THEN Admissible(v) ELSE {})

\* What is authorized was really issued, and what was issued for it is refused only
\* as a replay (the checks of custody.go, isolation.go and verification.go).
AuthorizesGenuine == GrantsGenuine /\ GenuineAccepted
=============================================================================
