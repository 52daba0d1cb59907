-------------------------- MODULE MCAuthorization --------------------------
(* Two verifiers with one request each: approvals of one command, evidence  *)
(* of a gateway's custody and isolation of a session, and projections of    *)
(* the evidence about one provider.  Documents come as they were issued and *)
(* as a faulty store could return them: one field changed after signing, or *)
(* a document of the other kind.                                            *)
EXTENDS Authorization

CONSTANTS v1, v2, n1, n2, run, e1, e2, e3, cur, old, gw, key, mission, mkey

\* The issuers sign with the SigningBytes of the kind of document.
Bytes(d) == CASE d.purpose = "custody-evidence" -> CustodySigningBytes(d)
              [] d.purpose = "isolation-evidence" -> IsolationSigningBytes(d)
              [] d.purpose = "live-run-authorization" -> AuthorizationBytes(d)
              [] d.purpose = "live-run-receipt" -> ReceiptBytes(d)
              [] OTHER -> VerificationBytes(d)
Sign(d) == [d EXCEPT !.value = <<d.key, Bytes(d)>>]

\* Approvals: for the current revisions or older ones, in time or late.
Binding(scope, nonce) == [form |-> TRUE, scope |-> scope, scopes |-> <<2, 1>>, expires |-> 3, nonce |-> nonce]
Decision(outcome, scope, decided) ==
    [form |-> TRUE, outcome |-> outcome, binding |-> Binding(scope, n1), decided |-> decided]
Approval(d) == [kind |-> "approval", document |-> d,
                expected |-> [Binding(cur, n1) EXCEPT !.scopes = <<1, 2>>]]
Approvals == <<Approval(Decision("approved", cur, 1)), Approval(Decision("rejected", cur, 1)),
               Approval(Decision("expired", cur, 1)), Approval(Decision("approved", old, 1)),
               Approval(Decision("approved", cur, 2))>>

\* Custody and isolation evidence of one gateway.
Evidence(purpose, nonce) ==
    Sign([form |-> TRUE, purpose |-> purpose, nonce |-> nonce, issued |-> 1, expires |-> 3,
          binding |-> [form |-> TRUE, scope |-> cur, controls |-> <<2, 1>>, gateway |-> gw, key |-> key],
          issuer |-> gw, key |-> key, value |-> None])
Purposes == {"custody-evidence", "isolation-evidence"}
EvidenceTrust == {<<gw, key, p>> : p \in Purposes}
Custody == Evidence("custody-evidence", n1)
Isolation == Evidence("isolation-evidence", n1)
Check_(p, d, scope) == [kind |-> p, document |-> d, trust |-> EvidenceTrust,
                        expected |-> [form |-> TRUE, scope |-> scope, controls |-> <<1, 2>>,
                                      gateway |-> gw, key |-> key]]
Reordered(d) == [d EXCEPT !.binding.controls = <<1, 2>>]
Checks == <<Check_("custody-evidence", Custody, cur), Check_("custody-evidence", Reordered(Custody), cur),
            Check_("isolation-evidence", Isolation, cur),
            Check_("custody-evidence", Custody, old), Check_("custody-evidence", Isolation, cur),
            Check_("custody-evidence", [Custody EXCEPT !.nonce = n2], cur),
            Check_("isolation-evidence", [Custody EXCEPT !.purpose = "isolation-evidence"], cur)>>

\* Two live verifications of one run, e1 and e2, and a contract verification e3.
Subject(l) == [form |-> TRUE, id |-> cur, lists |-> <<l, <<1>>, <<1>>>>]
Authorized == Sign([form |-> TRUE, purpose |-> "live-run-authorization", subject |-> Subject(<<2, 1>>), scope |-> cur,
                    gateway |-> gw, gatewayKey |-> key, nonce |-> run, issued |-> 1, expires |-> 3,
                    epoch |-> 1, issuer |-> mission, key |-> mkey, value |-> None])
Receipt == Sign([form |-> TRUE, purpose |-> "live-run-receipt", subject |-> Subject(<<1, 2>>), scope |-> cur, gateway |-> gw,
                 nonce |-> run, result |-> "passed", issued |-> 1, issuer |-> gw, key |-> key, value |-> None])
Verification(id, tier, a, r, epoch_) ==
    Sign([form |-> TRUE, id |-> id, tier |-> tier, subject |-> Subject(<<2, 1>>), result |-> "passed", issued |-> 1,
          expires |-> 4, epoch |-> epoch_, authorization |-> a, receipt |-> r, issuer |-> mission, key |-> mkey,
          purpose |-> IF tier = "live_verified" THEN "live-verification" ELSE "contract-verification",
          value |-> None])
Live1 == Verification(e1, "live_verified", Authorized, Receipt, 1)
Live2 == Verification(e2, "live_verified", Authorized, Receipt, 1)
Contract == Verification(e3, "native_contract_tested", None, None, 1)
Relisted == [Live1 EXCEPT !.receipt.subject = Subject(<<2, 1>>), !.subject = Subject(<<1, 2>>)]
Altered == [Live1 EXCEPT !.id = e2]
\* Signed by Mission over a live record whose own signature is of something else.
Rewritten1 == Verification(e1, "live_verified", [Authorized EXCEPT !.expires = 4], Receipt, 1)
Rewritten2 == Verification(e2, "live_verified", Authorized, [Receipt EXCEPT !.value = Authorized.value], 1)
VerificationTrust == {<<mission, mkey, "live-verification">>, <<mission, mkey, "contract-verification">>,
                      <<mission, mkey, "live-run-authorization">>, <<gw, key, "live-run-receipt">>}
Scope(scope, nonce) ==
    [form |-> TRUE, subject |-> Subject(<<1, 2>>), scope |-> scope, nonce |-> nonce,
     gateway |-> IF scope = None THEN None ELSE gw, key |-> IF scope = None THEN None ELSE key]
Projection(l, scope, nonce) ==
    [kind |-> "verification", evidence |-> l, expected |-> Scope(scope, nonce), trust |-> VerificationTrust]

\* For the run, for a contract only, and with a live scope that lacks its nonce.
Projections == <<Projection(<<Live1, Contract, Live2>>, cur, run), Projection(<<Live2, Contract>>, cur, run),
                 Projection(<<Contract, Relisted, Altered>>, cur, run),
                 Projection(<<Live1, Contract>>, None, None), Projection(<<Live1, Contract>>, cur, None),
                 Projection(<<Rewritten1, Rewritten2>>, cur, run)>>

MCIssued == {Custody, Isolation, Authorized, Receipt, Live1, Live2, Contract, Rewritten1, Rewritten2}

\* Requests are named by their position; each verifier is given one.
MCArgument == Approvals \o Checks \o Projections
Named(kinds) == {i \in DOMAIN MCArgument : MCArgument[i].kind \in kinds}
Pairs(K, L) == {(v1 :> a) @@ (v2 :> b) : a \in Named(K), b \in Named(L)}
MCScripts == UNION {Pairs(Kinds, Kinds), Pairs({"verification"}, {"verification"})}
MCSymmetry == Permutations(Verifiers)
=============================================================================
