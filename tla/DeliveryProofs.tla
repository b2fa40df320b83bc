--------------------------- MODULE DeliveryProofs ---------------------------
(***************************************************************************)
(* Proofs about Delivery: type correctness for any number of workers, and  *)
(* for one worker (what a coding lock on the task would give) the three    *)
(* safety properties, for any contracts, requests and bounds.              *)
(***************************************************************************)
EXTENDS Delivery, TLAPS

OkLedger == {l \in Ledger : l.attempt <= MaxAttempts}
OkRun == {r \in Run : r.attempt <= MaxAttempts}

------------------------------------------------------------------------------
(* The records that the steps write.                                       *)

LEMMA LedgerEdits ==
    ASSUME NEW l \in OkLedger
    PROVE  /\ \A s \in Status : [l EXCEPT !.status = s] \in OkLedger
           /\ \A p \in BOOLEAN : [l EXCEPT !.proof = p] \in OkLedger
           /\ \A e \in SUBSET {"coding", "qa"} : [l EXCEPT !.evidence = e] \in OkLedger
           /\ \A s \in Status, e \in SUBSET {"coding", "qa"} :
                 [l EXCEPT !.status = s, !.evidence = e] \in OkLedger
           /\ \A s \in Status : [l EXCEPT !.status = s, !.docs_required = TRUE] \in OkLedger
           /\ \A s \in Status, p \in BOOLEAN :
                 [l EXCEPT !.status = s, !.evidence = {}, !.proof = p] \in OkLedger
           /\ \A s \in Status, n \in 1 .. MaxAttempts :
                 [l EXCEPT !.status = s, !.attempt = n, !.evidence = {}] \in OkLedger
           /\ \A s \in Status, a \in {"approved", "rejected"}, d \in BOOLEAN, p \in BOOLEAN :
                 [l EXCEPT !.status = s, !.audit = a, !.docs_required = d, !.proof = p]
                   \in OkLedger
<1>1. ASSUME NEW s \in Status, NEW n \in 1 .. MaxAttempts
      PROVE  [l EXCEPT !.status = s, !.attempt = n, !.evidence = {}] \in OkLedger
  <2>1. n \in Nat /\ n <= MaxAttempts
    BY AttemptsAssumption
  <2> QED BY <2>1 DEF OkLedger, Ledger
<1>2. \A s \in Status, p \in BOOLEAN :
         [l EXCEPT !.status = s, !.evidence = {}, !.proof = p] \in OkLedger
  BY DEF OkLedger, Ledger
<1>3. \A e \in SUBSET {"coding", "qa"} : [l EXCEPT !.evidence = e] \in OkLedger
  BY DEF OkLedger, Ledger
<1>4. \A s \in Status, e \in SUBSET {"coding", "qa"} :
         [l EXCEPT !.status = s, !.evidence = e] \in OkLedger
  BY DEF OkLedger, Ledger
<1>5. \A s \in Status : [l EXCEPT !.status = s] \in OkLedger
  BY DEF OkLedger, Ledger
<1>6. \A p \in BOOLEAN : [l EXCEPT !.proof = p] \in OkLedger
  BY DEF OkLedger, Ledger
<1>7. \A s \in Status : [l EXCEPT !.status = s, !.docs_required = TRUE] \in OkLedger
  BY DEF OkLedger, Ledger
<1>8. \A s \in Status, a \in {"approved", "rejected"}, d \in BOOLEAN, p \in BOOLEAN :
         [l EXCEPT !.status = s, !.audit = a, !.docs_required = d, !.proof = p]
           \in OkLedger
  BY DEF OkLedger, Ledger
<1> QED BY Zenon, <1>1, <1>2, <1>3, <1>4, <1>5, <1>6, <1>7, <1>8

LEMMA RunEdits ==
    ASSUME NEW r \in OkRun
    PROVE  /\ [r EXCEPT !.fix_exists = TRUE] \in OkRun
           /\ [r EXCEPT !.coding = TRUE] \in OkRun
           /\ [r EXCEPT !.coding = FALSE, !.docs_round = 0] \in OkRun
           /\ [r EXCEPT !.coding = TRUE, !.reviewed = FALSE] \in OkRun
           /\ [r EXCEPT !.coding = TRUE, !.tested = FALSE] \in OkRun
           /\ [r EXCEPT !.reviewed = FALSE] \in OkRun
           /\ [r EXCEPT !.reviewed = r.fresh, !.fresh = TRUE] \in OkRun
           /\ [r EXCEPT !.tested = r.fresh] \in OkRun
           /\ [r EXCEPT !.fresh = FALSE, !.reviewed = FALSE, !.tested = FALSE] \in OkRun
           /\ \A d \in BOOLEAN : [r EXCEPT !.fresh = TRUE, !.documented = d] \in OkRun
           /\ \A n \in Nat : [r EXCEPT !.docs_round = n] \in OkRun
           /\ \A n \in 0 .. MaxAttempts : [r EXCEPT !.attempt = n] \in OkRun
           /\ \A n \in 0 .. MaxAttempts :
                 [r EXCEPT !.attempt = n, !.coding = ~r.fix_exists, !.fix_exists = FALSE] \in OkRun
<1>1. [r EXCEPT !.fix_exists = TRUE] \in OkRun /\ [r EXCEPT !.coding = TRUE] \in OkRun
  BY DEF OkRun, Run
<1>2. [r EXCEPT !.coding = FALSE, !.docs_round = 0] \in OkRun
  BY DEF OkRun, Run
<1>3. /\ [r EXCEPT !.coding = TRUE, !.reviewed = FALSE] \in OkRun
      /\ [r EXCEPT !.coding = TRUE, !.tested = FALSE] \in OkRun
  BY DEF OkRun, Run
<1>4. [r EXCEPT !.reviewed = FALSE] \in OkRun /\ [r EXCEPT !.tested = r.fresh] \in OkRun
  BY DEF OkRun, Run
<1>5. [r EXCEPT !.reviewed = r.fresh, !.fresh = TRUE] \in OkRun
  BY DEF OkRun, Run
<1>6. [r EXCEPT !.fresh = FALSE, !.reviewed = FALSE, !.tested = FALSE] \in OkRun
  BY DEF OkRun, Run
<1>7. \A d \in BOOLEAN : [r EXCEPT !.fresh = TRUE, !.documented = d] \in OkRun
  BY DEF OkRun, Run
<1>8. \A n \in Nat : [r EXCEPT !.docs_round = n] \in OkRun
  BY DEF OkRun, Run
<1>9. ASSUME NEW n \in 0 .. MaxAttempts
      PROVE  /\ [r EXCEPT !.attempt = n] \in OkRun
             /\ [r EXCEPT !.attempt = n, !.coding = ~r.fix_exists, !.fix_exists = FALSE] \in OkRun
  <2>1. n \in Nat /\ n <= MaxAttempts
    BY AttemptsAssumption
  <2>2. [r EXCEPT !.attempt = n] \in OkRun
    BY <2>1 DEF OkRun, Run
  <2>3. [r EXCEPT !.attempt = n, !.coding = ~r.fix_exists, !.fix_exists = FALSE] \in OkRun
    BY <2>1 DEF OkRun, Run
  <2> QED BY <2>2, <2>3
<1> QED BY Zenon, <1>1, <1>2, <1>3, <1>4, <1>5, <1>6, <1>7, <1>8, <1>9

\* TypeOK in pieces.
LedgerOK == ledger \in OkLedger
RunsOK == run \in [Worker -> OkRun]
OthersOK ==
    /\ contract \in Contract /\ tree \in Tree /\ pc \in [Worker -> Stage]
    /\ draft \in OkLedger /\ pending \in 0 .. 2
    /\ coded \in Nat /\ rewrites \in Nat /\ crashes \in Nat

LEMMA Pieces ==
    /\ TypeOK <=> LedgerOK /\ RunsOK /\ OthersOK
    /\ TypeOK' <=> LedgerOK' /\ RunsOK' /\ OthersOK'
BY DEF TypeOK, LedgerOK, RunsOK, OthersOK, OkLedger, OkRun

LEMMA RunSet ==
    ASSUME RunsOK, NEW w \in Worker, NEW r \in OkRun, SetRun(w, r)
    PROVE  RunsOK'
BY DEF SetRun, RunsOK, OkRun

LEMMA RunKept == RunsOK /\ UNCHANGED run => RunsOK'
BY DEF RunsOK, OkRun

LEMMA NoRunOK == NoRun \in OkRun
BY AttemptsAssumption DEF OkRun, NoRun, Run, RequestType

LEMMA StatusSet ==
    ASSUME LedgerOK, NEW s \in Status, SetStatus(s)
    PROVE  LedgerOK'
BY Zenon, LedgerEdits DEF LedgerOK, SetStatus, OkLedger

LEMMA AuditRecorded ==
    ASSUME LedgerOK, NEW s \in Status, NEW a \in {"approved", "rejected"},
           NEW d \in BOOLEAN, NEW p \in BOOLEAN,
           ledger' = [ledger EXCEPT !.status = s, !.audit = a, !.docs_required = d, !.proof = p]
    PROVE  LedgerOK'
<1>1. [ledger EXCEPT !.status = s, !.audit = a, !.docs_required = d, !.proof = p] \in OkLedger
  BY LedgerEdits DEF LedgerOK
<1> QED BY <1>1 DEF LedgerOK

LEMMA OutdatedOK ==
    ASSUME RunsOK
    PROVE  Outdated \in [Worker -> OkRun]
<1> SUFFICES ASSUME NEW w \in Worker
             PROVE [run[w] EXCEPT !.fresh = FALSE, !.reviewed = FALSE, !.tested = FALSE] \in OkRun
  BY Zenon DEF Outdated, OkRun
<1> QED BY Zenon, RunEdits DEF RunsOK

LEMMA Returned ==
    ASSUME RunsOK, NEW w \in Worker, SetRun(w, NoRun)
    PROVE  RunsOK'
BY RunSet, NoRunOK

------------------------------------------------------------------------------
(* Type correctness.                                                       *)

LEMMA TypeInvariant == TypeOK /\ [Next]_vars => TypeOK'
<1> SUFFICES ASSUME TypeOK, [Next]_vars PROVE TypeOK'
  OBVIOUS
<1>0. LedgerOK /\ RunsOK /\ OthersOK
  BY Pieces
<1> USE DEF Status, Stage, At, Goto, Return, SameWork, Outside
<1>1. ASSUME NEW w \in Worker, Prepare(w) PROVE TypeOK'
  <2>1. LedgerOK'
    BY Zenon, <1>0, <1>1, StatusSet, LedgerEdits DEF Prepare, LedgerOK
  <2>2. RunsOK'
    BY Zenon, <1>0, <1>1, RunSet, RunEdits, RunKept, Returned, OutdatedOK DEF Prepare, RunsOK
  <2>3. OthersOK'
    BY <1>0, <1>1 DEF Prepare, OthersOK, Tree
  <2> QED BY <2>1, <2>2, <2>3, Pieces
<1>2. ASSUME NEW w \in Worker, AuditReturns(w) PROVE TypeOK'
  <2>1. LedgerOK'
    <3>1. contract.proof_complete \in BOOLEAN /\ ledger.docs_required \in BOOLEAN
      BY <1>0, InputAssumption DEF OthersOK, ContractType, LedgerOK, OkLedger, Ledger
    <3>2. PICK s \in Status, a \in {"approved", "rejected"}, d \in BOOLEAN, p \in BOOLEAN :
             ledger' = [ledger EXCEPT !.status = s, !.audit = a, !.docs_required = d, !.proof = p]
      BY Zenon, <1>2, <3>1 DEF AuditReturns
    <3> QED BY Zenon, <1>0, <3>2, AuditRecorded
  <2>2. RunsOK'
    BY Zenon, <1>0, <1>2, RunSet, RunEdits, RunKept, Returned, OutdatedOK DEF AuditReturns, RunsOK
  <2>3. OthersOK'
    BY <1>0, <1>2 DEF AuditReturns, OthersOK, Tree
  <2> QED BY <2>1, <2>2, <2>3, Pieces
<1>3. ASSUME NEW w \in Worker, CloseReturns(w) PROVE TypeOK'
  <2>1. LedgerOK'
    BY Zenon, <1>0, <1>3, StatusSet, LedgerEdits DEF CloseReturns, LedgerOK
  <2>2. RunsOK'
    BY Zenon, <1>0, <1>3, RunSet, RunEdits, RunKept, Returned, OutdatedOK DEF CloseReturns, RunsOK
  <2>3. OthersOK'
    BY <1>0, <1>3 DEF CloseReturns, OthersOK, Tree
  <2> QED BY <2>1, <2>2, <2>3, Pieces
<1>4. ASSUME NEW w \in Worker, EnterProof(w) PROVE TypeOK'
  <2>1. LedgerOK'
    BY Zenon, <1>0, <1>4, StatusSet, LedgerEdits DEF EnterProof, LedgerOK
  <2>2. RunsOK'
    BY Zenon, <1>0, <1>4, RunSet, RunEdits, RunKept, Returned, OutdatedOK DEF EnterProof, RunsOK
  <2>3. OthersOK'
    BY <1>0, <1>4 DEF EnterProof, OthersOK, Tree
  <2> QED BY <2>1, <2>2, <2>3, Pieces
<1>5. ASSUME NEW w \in Worker, BootstrapReturns(w) PROVE TypeOK'
  <2>1. LedgerOK'
    <3>1. \/ SetStatus("closed")
          \/ \E p \in BOOLEAN : ledger' = [ledger EXCEPT !.proof = p]
      BY <1>5 DEF BootstrapReturns
    <3>2. ASSUME NEW p \in BOOLEAN, ledger' = [ledger EXCEPT !.proof = p] PROVE LedgerOK'
      BY Zenon, <1>0, <3>2, LedgerEdits DEF LedgerOK
    <3> QED BY <1>0, <3>1, <3>2, StatusSet
  <2>2. RunsOK'
    BY Zenon, <1>0, <1>5, RunSet, RunEdits, RunKept, Returned, OutdatedOK DEF BootstrapReturns,
         MayEdit, RunsOK
  <2>3. OthersOK'
    BY <1>0, <1>5 DEF BootstrapReturns, MayEdit, OthersOK, Tree
  <2> QED BY <2>1, <2>2, <2>3, Pieces
<1>6. ASSUME NEW w \in Worker, CheckContract(w) PROVE TypeOK'
  <2>1. LedgerOK'
    BY Zenon, <1>0, <1>6, StatusSet, LedgerEdits DEF CheckContract, LedgerOK
  <2>2. RunsOK'
    BY Zenon, <1>0, <1>6, RunSet, RunEdits, RunKept, Returned, OutdatedOK DEF CheckContract, RunsOK
  <2>3. OthersOK'
    BY <1>0, <1>6 DEF CheckContract, OthersOK, Tree
  <2> QED BY <2>1, <2>2, <2>3, Pieces
<1>7. ASSUME NEW w \in Worker, ReproReturns(w) PROVE TypeOK'
  <2>1. LedgerOK'
    BY Zenon, <1>0, <1>7, StatusSet, LedgerEdits DEF ReproReturns, LedgerOK
  <2>2. RunsOK'
    BY Zenon, <1>0, <1>7, RunSet, RunEdits, RunKept, Returned, OutdatedOK DEF ReproReturns, RunsOK
  <2>3. OthersOK'
    BY <1>0, <1>7 DEF ReproReturns, OthersOK, Tree
  <2> QED BY <2>1, <2>2, <2>3, Pieces
<1>8. ASSUME NEW w \in Worker, EnterCoding(w) PROVE TypeOK'
  <2>1. LedgerOK'
    BY Zenon, <1>0, <1>8, StatusSet, LedgerEdits DEF EnterCoding, StartAttempt, LedgerOK
  <2>2. RunsOK'
    <3>1. StartAttempt(w) \in 0 .. MaxAttempts
      BY <1>0, AttemptsAssumption DEF StartAttempt, LedgerOK, OkLedger, Ledger
    <3> QED BY Zenon, <1>0, <1>8, <3>1, RunSet, RunEdits DEF EnterCoding, RunsOK
  <2>3. OthersOK'
    BY <1>0, <1>8 DEF EnterCoding, StartAttempt, OthersOK, Tree
  <2> QED BY <2>1, <2>2, <2>3, Pieces
<1>9. ASSUME NEW w \in Worker, DispatchCoding(w) PROVE TypeOK'
  <2>1. LedgerOK'
    <3>1. run[w].attempt + 1 \in 1 .. MaxAttempts
      BY <1>0, <1>9, AttemptsAssumption DEF DispatchCoding, AttemptsLeft, RunsOK, OkRun, Run
    <3> QED BY Zenon, <1>0, <1>9, <3>1, LedgerEdits DEF DispatchCoding, LedgerOK
  <2>2. RunsOK'
    <3>1. run[w].attempt + 1 \in 0 .. MaxAttempts
      BY <1>0, <1>9, AttemptsAssumption DEF DispatchCoding, AttemptsLeft, RunsOK, OkRun, Run
    <3> QED BY Zenon, <1>0, <1>9, <3>1, RunSet, RunEdits DEF DispatchCoding, RunsOK
  <2>3. OthersOK'
    BY <1>0, <1>9 DEF DispatchCoding, AttemptsLeft, OthersOK, Tree
  <2> QED BY <2>1, <2>2, <2>3, Pieces
<1>10. ASSUME NEW w \in Worker, SkipCoding(w) PROVE TypeOK'
  <2>1. LedgerOK'
    BY Zenon, <1>0, <1>10, StatusSet, LedgerEdits DEF SkipCoding, LedgerOK
  <2>2. RunsOK'
    BY Zenon, <1>0, <1>10, RunSet, RunEdits, RunKept, Returned, OutdatedOK DEF SkipCoding, RunsOK
  <2>3. OthersOK'
    BY <1>0, <1>10 DEF SkipCoding, OthersOK, Tree
  <2> QED BY <2>1, <2>2, <2>3, Pieces
<1>11. ASSUME NEW w \in Worker, AttemptsExhausted(w) PROVE TypeOK'
  <2>1. LedgerOK'
    BY Zenon, <1>0, <1>11, StatusSet, LedgerEdits DEF AttemptsExhausted, LedgerOK
  <2>2. RunsOK'
    BY Zenon, <1>0, <1>11, RunSet, RunEdits, RunKept, Returned, OutdatedOK DEF
         AttemptsExhausted, RunsOK
  <2>3. OthersOK'
    BY <1>0, <1>11 DEF AttemptsExhausted, OthersOK, Tree
  <2> QED BY <2>1, <2>2, <2>3, Pieces
<1>12. ASSUME NEW w \in Worker, CodingEdits(w) PROVE TypeOK'
  <2>1. LedgerOK'
    BY Zenon, <1>0, <1>12, StatusSet, LedgerEdits DEF CodingEdits, LedgerOK
  <2>2. RunsOK'
    BY Zenon, <1>0, <1>12, RunSet, RunEdits, RunKept, Returned, OutdatedOK DEF CodingEdits, RunsOK
  <2>3. OthersOK'
    BY <1>0, <1>12 DEF CodingEdits, OthersOK, Tree
  <2> QED BY <2>1, <2>2, <2>3, Pieces
<1>13. ASSUME NEW w \in Worker, CodingReturns(w) PROVE TypeOK'
  <2>1. LedgerOK'
    <3>1. PICK e \in SUBSET {"coding"} : ledger' = [ledger EXCEPT !.evidence = e]
      BY <1>13 DEF CodingReturns
    <3>2. e \in SUBSET {"coding", "qa"}
      OBVIOUS
    <3> QED BY Zenon, <1>0, <3>1, <3>2, LedgerEdits DEF LedgerOK
  <2>2. RunsOK'
    BY Zenon, <1>0, <1>13, RunSet, RunEdits, RunKept, Returned, OutdatedOK DEF CodingReturns, RunsOK
  <2>3. OthersOK'
    BY <1>0, <1>13 DEF CodingReturns, OthersOK, Tree
  <2> QED BY <2>1, <2>2, <2>3, Pieces
<1>14. ASSUME NEW w \in Worker, EnterDocs(w) PROVE TypeOK'
  <2>1. LedgerOK'
    BY Zenon, <1>0, <1>14, StatusSet, LedgerEdits DEF EnterDocs, LedgerOK
  <2>2. RunsOK'
    <3>1. run[w].docs_round + 1 \in Nat
      BY <1>0 DEF RunsOK, OkRun, Run
    <3> QED BY Zenon, <1>0, <1>14, <3>1, RunSet, RunEdits DEF EnterDocs, RunsOK
  <2>3. OthersOK'
    BY <1>0, <1>14 DEF EnterDocs, OthersOK, Tree
  <2> QED BY <2>1, <2>2, <2>3, Pieces
<1>15. ASSUME NEW w \in Worker, SkipDocs(w) PROVE TypeOK'
  <2>1. LedgerOK'
    BY Zenon, <1>0, <1>15, StatusSet, LedgerEdits DEF SkipDocs, StartReview, LedgerOK
  <2>2. RunsOK'
    BY Zenon, <1>0, <1>15, RunSet, RunEdits, RunKept, Returned, OutdatedOK DEF SkipDocs,
         StartReview, RunsOK
  <2>3. OthersOK'
    BY <1>0, <1>15 DEF SkipDocs, StartReview, OthersOK, Tree
  <2> QED BY <2>1, <2>2, <2>3, Pieces
<1>16. ASSUME NEW w \in Worker, DocsReturns(w) PROVE TypeOK'
  <2>1. LedgerOK'
    <3>1. PICK s \in Status : ledger' = [ledger EXCEPT !.status = s, !.docs_required = TRUE]
      BY <1>16 DEF DocsReturns
    <3> QED BY Zenon, <1>0, <3>1, LedgerEdits DEF LedgerOK
  <2>2. RunsOK'
    <3>1. PICK locals \in {run, Outdated} :
             \/ run' = [locals EXCEPT ![w] = [@ EXCEPT !.fresh = TRUE, !.documented = TRUE]]
             \/ run' = [locals EXCEPT ![w] = NoRun]
      BY <1>16 DEF DocsReturns, StartReview
    <3>2. locals \in [Worker -> OkRun]
      BY <1>0, <3>1, OutdatedOK DEF RunsOK
    <3> QED BY Zenon, <3>1, <3>2, RunEdits, NoRunOK DEF RunsOK
  <2>3. OthersOK'
    BY <1>0, <1>16 DEF DocsReturns, MayEdit, StartReview, OthersOK, Tree
  <2> QED BY <2>1, <2>2, <2>3, Pieces
<1>17. ASSUME NEW w \in Worker, ReviewReturns(w) PROVE TypeOK'
  <2>1. LedgerOK'
    BY Zenon, <1>0, <1>17, StatusSet, LedgerEdits DEF ReviewReturns, RejectCode, LedgerOK
  <2>2. RunsOK'
    BY Zenon, <1>0, <1>17, RunSet, RunEdits, RunKept, Returned, OutdatedOK DEF ReviewReturns,
         RejectCode, RunsOK
  <2>3. OthersOK'
    BY <1>0, <1>17 DEF ReviewReturns, RejectCode, OthersOK, Tree
  <2> QED BY <2>1, <2>2, <2>3, Pieces
<1>18. ASSUME NEW w \in Worker, QaReturns(w) PROVE TypeOK'
  <2>1. LedgerOK'
    <3>1. PICK s \in Status, e \in {ledger.evidence \ {"qa"}, ledger.evidence \cup {"qa"}} :
             ledger' = [ledger EXCEPT !.status = s, !.evidence = e]
      BY <1>18 DEF QaReturns
    <3>2. ledger.evidence \in SUBSET {"coding", "qa"}
      BY <1>0 DEF LedgerOK, OkLedger, Ledger
    <3>3. e \in SUBSET {"coding", "qa"}
      BY <3>1, <3>2
    <3> QED BY Zenon, <1>0, <3>1, <3>3, LedgerEdits DEF LedgerOK
  <2>2. RunsOK'
    BY Zenon, <1>0, <1>18, RunSet, RunEdits, RunKept, Returned, OutdatedOK DEF QaReturns, RunsOK
  <2>3. OthersOK'
    BY <1>0, <1>18 DEF QaReturns, OthersOK, Tree
  <2> QED BY <2>1, <2>2, <2>3, Pieces
<1>19. ASSUME NEW w \in Worker, ScopeViolation(w) PROVE TypeOK'
  <2>1. LedgerOK'
    BY Zenon, <1>0, <1>19, StatusSet, LedgerEdits DEF ScopeViolation, LedgerOK
  <2>2. RunsOK'
    BY Zenon, <1>0, <1>19, RunSet, RunEdits, RunKept, Returned, OutdatedOK
       DEF ScopeViolation, RunsOK
  <2>3. OthersOK'
    BY <1>0, <1>19 DEF ScopeViolation, OthersOK, Tree
  <2> QED BY <2>1, <2>2, <2>3, Pieces
<1>20. ASSUME NEW w \in Worker, ReleaseDry(w) PROVE TypeOK'
  <2>1. LedgerOK'
    BY Zenon, <1>0, <1>20, StatusSet, LedgerEdits DEF ReleaseDry, LedgerOK
  <2>2. RunsOK'
    BY Zenon, <1>0, <1>20, RunSet, RunEdits, RunKept, Returned, OutdatedOK DEF ReleaseDry, RunsOK
  <2>3. OthersOK'
    BY <1>0, <1>20 DEF ReleaseDry, OthersOK, Tree
  <2> QED BY <2>1, <2>2, <2>3, Pieces
<1>21. ASSUME NEW w \in Worker, ReleasePushes(w) PROVE TypeOK'
  <2>1. LedgerOK'
    BY Zenon, <1>0, <1>21, StatusSet, LedgerEdits DEF ReleasePushes, LedgerOK
  <2>2. RunsOK'
    BY Zenon, <1>0, <1>21, RunSet, RunEdits, RunKept, Returned, OutdatedOK DEF ReleasePushes, RunsOK
  <2>3. OthersOK'
    BY Zenon, <1>0, <1>21 DEF ReleasePushes, OthersOK, Tree
  <2> QED BY <2>1, <2>2, <2>3, Pieces
<1>22. ASSUME NEW w \in Worker, ReleaseConflicts(w) PROVE TypeOK'
  <2>1. LedgerOK'
    BY Zenon, <1>0, <1>22, StatusSet, LedgerEdits DEF ReleaseConflicts, LedgerOK
  <2>2. RunsOK'
    BY Zenon, <1>0, <1>22, RunSet, RunEdits, RunKept, Returned, OutdatedOK DEF
         ReleaseConflicts, RunsOK
  <2>3. OthersOK'
    BY <1>0, <1>22 DEF ReleaseConflicts, OthersOK, Tree
  <2> QED BY <2>1, <2>2, <2>3, Pieces
<1>23. ASSUME NEW w \in Worker, AfterConflict(w) PROVE TypeOK'
  <2>1. LedgerOK'
    BY Zenon, <1>0, <1>23, StatusSet, LedgerEdits DEF AfterConflict, LedgerOK
  <2>2. RunsOK'
    BY Zenon, <1>0, <1>23, RunSet, RunEdits, RunKept, Returned, OutdatedOK DEF AfterConflict, RunsOK
  <2>3. OthersOK'
    BY <1>0, <1>23 DEF AfterConflict, OthersOK, Tree
  <2> QED BY <2>1, <2>2, <2>3, Pieces
<1>24. ASSUME NEW w \in Worker, ReleaseFails(w) PROVE TypeOK'
  <2>1. LedgerOK'
    BY Zenon, <1>0, <1>24, StatusSet, LedgerEdits DEF ReleaseFails, LedgerOK
  <2>2. RunsOK'
    BY Zenon, <1>0, <1>24, RunSet, RunEdits, RunKept, Returned, OutdatedOK DEF ReleaseFails, RunsOK
  <2>3. OthersOK'
    BY <1>0, <1>24 DEF ReleaseFails, OthersOK, Tree
  <2> QED BY <2>1, <2>2, <2>3, Pieces
<1>25. ASSUME NEW w \in Worker, AfterPush(w) PROVE TypeOK'
  <2>1. LedgerOK'
    BY Zenon, <1>0, <1>25, StatusSet, LedgerEdits DEF AfterPush, LedgerOK
  <2>2. RunsOK'
    BY Zenon, <1>0, <1>25, RunSet, RunEdits, RunKept, Returned, OutdatedOK DEF AfterPush, RunsOK
  <2>3. OthersOK'
    BY <1>0, <1>25 DEF AfterPush, OthersOK, Tree
  <2> QED BY <2>1, <2>2, <2>3, Pieces
<1>26. ASSUME NEW w \in Worker, Fails(w) PROVE TypeOK'
  <2>1. LedgerOK'
    BY Zenon, <1>0, <1>26, StatusSet, LedgerEdits DEF Fails, LedgerOK
  <2>2. RunsOK'
    BY Zenon, <1>0, <1>26, RunSet, RunEdits, RunKept, Returned, OutdatedOK DEF Fails, RunsOK
  <2>3. OthersOK'
    BY <1>0, <1>26 DEF Fails, OthersOK, Tree
  <2> QED BY <2>1, <2>2, <2>3, Pieces
<1>27. ASSUME NEW w \in Worker, NEW kind \in Request, Start(w, kind) PROVE TypeOK'
  <2>1. [NoRun EXCEPT !.kind = kind] \in OkRun
    BY InputAssumption, NoRunOK DEF OkRun, Run
  <2>2. RunsOK'
    BY <1>0, <1>27, <2>1, RunSet DEF Start
  <2>3. LedgerOK' /\ OthersOK'
    BY <1>0, <1>27 DEF Start, LedgerOK, OthersOK, Tree
  <2> QED BY <2>2, <2>3, Pieces
<1>28. CASE Crash
  <2>1. RunsOK'
    BY <1>28, NoRunOK DEF Crash, RunsOK
  <2>2. LedgerOK' /\ NoDraft \in OkLedger
    BY <1>0, <1>28, AttemptsAssumption DEF Crash, LedgerOK, NoDraft, OkLedger, Ledger
  <2>3. OthersOK'
    BY <1>0, <1>28, <2>2 DEF Crash, OthersOK
  <2> QED BY <2>1, <2>2, <2>3, Pieces
<1>29. CASE PlannerReads
  <2>1. contract.proof_complete \in BOOLEAN
    BY <1>0, InputAssumption DEF OthersOK, ContractType
  <2>2. draft' \in OkLedger
    BY Zenon, <1>0, <1>29, <2>1, LedgerEdits DEF PlannerReads, LedgerOK
  <2> QED BY <1>0, <1>29, <2>2, Pieces DEF PlannerReads, LedgerOK, RunsOK, OthersOK
<1>30. CASE PlannerSaves
  <2>1. NoDraft \in OkLedger
    BY AttemptsAssumption DEF NoDraft, OkLedger, Ledger
  <2>2. LedgerOK' /\ RunsOK'
    BY <1>0, <1>30 DEF PlannerSaves, LedgerOK, RunsOK, OthersOK
  <2>3. OthersOK'
    BY <1>0, <1>30, <2>1 DEF PlannerSaves, OthersOK
  <2> QED BY <2>2, <2>3, Pieces
<1>31. CASE UNCHANGED vars
  BY <1>31 DEF vars, TypeOK
<1> QED BY <1>1, <1>2, <1>3, <1>4, <1>5, <1>6, <1>7, <1>8, <1>9, <1>10, <1>11, <1>12, <1>13,
     <1>14, <1>15, <1>16, <1>17, <1>18, <1>19, <1>20, <1>21, <1>22, <1>23, <1>24, <1>25,
     <1>26, <1>27, <1>28, <1>29, <1>30, <1>31 DEF Next, Continue

LEMMA InitType == Init => TypeOK
<1> SUFFICES ASSUME Init PROVE LedgerOK /\ RunsOK /\ OthersOK
  BY Pieces
<1>1. contract \in Contract /\ contract.proof_complete \in BOOLEAN
  BY InputAssumption DEF Init, ContractType
<1>2. LedgerOK
  BY <1>1, AttemptsAssumption DEF Init, LedgerOK, OkLedger, Ledger, Status
<1>3. RunsOK
  BY NoRunOK DEF Init, RunsOK
<1>4. NoDraft \in OkLedger
  BY AttemptsAssumption DEF NoDraft, OkLedger, Ledger, Status
<1>5. tree \in Tree /\ pc \in [Worker -> Stage]
  BY DEF Init, Tree, Stage
<1> QED BY <1>1, <1>2, <1>3, <1>4, <1>5 DEF Init, OthersOK

\* Ledger, worktree, runs and the planner's record keep their types, and no
\* attempt count, in a run, in the ledger or in an old record, passes MaxAttempts.
THEOREM TypeCorrect == Spec => []TypeOK
BY InitType, TypeInvariant, PTL DEF Spec

------------------------------------------------------------------------------
(* One worker.  From here on the theorems are about a task that one worker *)
(* at a time delivers, which a coding lock on the task would guarantee.    *)

OneWorker == \A v, w \in Worker : v = w

\* What the steps need to know of the types.
LEMMA Typed ==
    ASSUME TypeOK, NEW w \in Worker
    PROVE  /\ pc \in [Worker -> Stage] /\ run \in [Worker -> Run]
           /\ run[w].attempt \in Nat /\ run[w].attempt <= MaxAttempts
           /\ ledger \in Ledger /\ ledger.attempt \in Nat /\ ledger.attempt <= MaxAttempts
           /\ coded \in Nat /\ rewrites \in Nat
           /\ MaxAttempts * rewrites \in Nat
<1>1. MaxAttempts * rewrites \in Nat
  BY AttemptsAssumption DEF TypeOK
<1> QED BY <1>1 DEF TypeOK, Ledger, Run

------------------------------------------------------------------------------
(* The gates.                                                              *)

\* What a worker that waits for its reviewer, its tester or its release knows.
Gated(w) ==
    /\ pc[w] = "review" => run[w].fresh
    /\ pc[w] = "qa" => run[w].fresh /\ run[w].reviewed
    /\ pc[w] = "release" => run[w].reviewed /\ run[w].tested
GatesInv == TypeOK /\ \A w \in Worker : Gated(w)

LEMMA ElsewhereGated ==
    ASSUME NEW w \in Worker, pc'[w] \notin {"review", "qa", "release"}
    PROVE  Gated(w)'
BY DEF Gated

LEMMA GatesInvariant ==
    ASSUME OneWorker PROVE GatesInv /\ [Next]_vars => GatesInv'
<1> SUFFICES ASSUME GatesInv, [Next]_vars, NEW w \in Worker PROVE Gated(w)'
  BY TypeInvariant DEF GatesInv
<1>0. Gated(w) /\ pc \in [Worker -> Stage] /\ run \in [Worker -> Run]
  BY Typed DEF GatesInv
<1> USE DEF At, Goto, Return
<1>1. ASSUME Prepare(w) PROVE Gated(w)'
  BY <1>0, <1>1, ElsewhereGated DEF Prepare
<1>2. ASSUME AuditReturns(w) PROVE Gated(w)'
  BY <1>0, <1>2, ElsewhereGated DEF AuditReturns
<1>3. ASSUME CloseReturns(w) PROVE Gated(w)'
  BY <1>0, <1>3, ElsewhereGated DEF CloseReturns
<1>4. ASSUME EnterProof(w) PROVE Gated(w)'
  BY <1>0, <1>4, ElsewhereGated DEF EnterProof
<1>5. ASSUME BootstrapReturns(w) PROVE Gated(w)'
  BY <1>0, <1>5, ElsewhereGated DEF BootstrapReturns
<1>6. ASSUME CheckContract(w) PROVE Gated(w)'
  BY <1>0, <1>6, ElsewhereGated DEF CheckContract
<1>7. ASSUME ReproReturns(w) PROVE Gated(w)'
  BY <1>0, <1>7, ElsewhereGated DEF ReproReturns
<1>8. ASSUME EnterCoding(w) PROVE Gated(w)'
  BY <1>0, <1>8, ElsewhereGated DEF EnterCoding
<1>9. ASSUME DispatchCoding(w) PROVE Gated(w)'
  BY <1>0, <1>9, ElsewhereGated DEF DispatchCoding
<1>10. ASSUME SkipCoding(w) PROVE Gated(w)'
  BY <1>0, <1>10, ElsewhereGated DEF SkipCoding
<1>11. ASSUME AttemptsExhausted(w) PROVE Gated(w)'
  BY <1>0, <1>11, ElsewhereGated DEF AttemptsExhausted
<1>12. ASSUME CodingEdits(w) PROVE Gated(w)'
  BY <1>0, <1>12, ElsewhereGated DEF CodingEdits
<1>13. ASSUME CodingReturns(w) PROVE Gated(w)'
  BY <1>0, <1>13, ElsewhereGated DEF CodingReturns
<1>14. ASSUME EnterDocs(w) PROVE Gated(w)'
  BY <1>0, <1>14, ElsewhereGated DEF EnterDocs
<1>15. ASSUME SkipDocs(w) PROVE Gated(w)'
  BY <1>0, <1>15 DEF SkipDocs, StartReview, Gated, Run
<1>16. ASSUME DocsReturns(w) PROVE Gated(w)'
  <2>1. \/ pc'[w] = "idle"
        \/ /\ pc'[w] = "review"
           /\ \E locals \in {run, Outdated} :
                 run' = [locals EXCEPT ![w] = [@ EXCEPT !.fresh = TRUE, !.documented = TRUE]]
    BY <1>0, <1>16 DEF DocsReturns, StartReview
  <2>2. Outdated \in [Worker -> Run]
    BY Zenon, <1>0 DEF Outdated, Run
  <2>3. ASSUME NEW locals \in {run, Outdated},
               run' = [locals EXCEPT ![w] = [@ EXCEPT !.fresh = TRUE, !.documented = TRUE]]
        PROVE  run'[w].fresh
    <3>1. locals \in [Worker -> Run]
      BY <1>0, <2>2
    <3>2. run'[w] = [locals[w] EXCEPT !.fresh = TRUE, !.documented = TRUE] /\ locals[w] \in Run
      BY <2>3, <3>1
    <3> QED BY <3>2 DEF Run
  <2> QED BY <2>1, <2>3, ElsewhereGated DEF Gated
<1>17. ASSUME ReviewReturns(w) PROVE Gated(w)'
  BY <1>0, <1>17 DEF ReviewReturns, RejectCode, SetRun, Gated, Run
<1>18. ASSUME QaReturns(w) PROVE Gated(w)'
  BY <1>0, <1>18 DEF QaReturns, SetRun, Gated, Run
<1>19. ASSUME ScopeViolation(w) PROVE Gated(w)'
  BY <1>0, <1>19, ElsewhereGated DEF ScopeViolation
<1>20. ASSUME ReleaseDry(w) PROVE Gated(w)'
  BY <1>0, <1>20, ElsewhereGated DEF ReleaseDry
<1>21. ASSUME ReleasePushes(w) PROVE Gated(w)'
  BY <1>0, <1>21, ElsewhereGated DEF ReleasePushes
<1>22. ASSUME ReleaseConflicts(w) PROVE Gated(w)'
  BY <1>0, <1>22, ElsewhereGated DEF ReleaseConflicts
<1>23. ASSUME AfterConflict(w) PROVE Gated(w)'
  BY <1>0, <1>23, ElsewhereGated DEF AfterConflict
<1>24. ASSUME ReleaseFails(w) PROVE Gated(w)'
  BY <1>0, <1>24, ElsewhereGated DEF ReleaseFails
<1>25. ASSUME AfterPush(w) PROVE Gated(w)'
  BY <1>0, <1>25, ElsewhereGated DEF AfterPush
<1>26. ASSUME Fails(w) PROVE Gated(w)'
  BY <1>0, <1>26, ElsewhereGated DEF Fails
<1>27. ASSUME NEW kind \in Request, Start(w, kind) PROVE Gated(w)'
  BY <1>0, <1>27, ElsewhereGated DEF Start
<1>28. CASE Crash
  BY <1>28, ElsewhereGated DEF Crash
<1>29. CASE PlannerReads \/ PlannerSaves \/ UNCHANGED vars
  BY <1>0, <1>29 DEF PlannerReads, PlannerSaves, vars, Gated
<1> QED BY <1>1, <1>2, <1>3, <1>4, <1>5, <1>6, <1>7, <1>8, <1>9, <1>10, <1>11, <1>12, <1>13,
     <1>14, <1>15, <1>16, <1>17, <1>18, <1>19, <1>20, <1>21, <1>22, <1>23, <1>24, <1>25,
     <1>26, <1>27, <1>28, <1>29 DEF OneWorker, Next, Continue

\* What one worker pushes is what its last review and its last QA run approved.
THEOREM GatesHold ==
    ASSUME OneWorker PROVE Spec => PushedCodePassedGates
<1>1. Init => GatesInv
  BY InitType DEF Init, GatesInv, Gated
<1>2. GatesInv /\ [Next]_vars =>
        [\A w \in Worker : At(w, "release") /\ pc'[w] = "shipped" => run[w].reviewed /\ run[w].tested]_vars
  BY DEF GatesInv, Gated, At
<1> QED BY <1>1, <1>2, GatesInvariant, PTL DEF Spec, PushedCodePassedGates

------------------------------------------------------------------------------
(* Final states.                                                           *)

\* A worker that was not forced is done with a task that is final; the
\* planner only knows "todo".
OpenFor(w) == pc[w] \notin {"idle", "closing"} /\ ~Forced(w) => ledger.status \notin Final
FinalInv ==
    /\ TypeOK
    /\ draft.status = "todo"
    /\ \A w \in Worker : OpenFor(w)

LEMMA DoneOrOpen ==
    ASSUME NEW w \in Worker,
           pc'[w] \in {"idle", "closing"} \/ ledger'.status \notin Final
    PROVE  OpenFor(w)'
BY DEF OpenFor

\* A step that changes neither the status nor the kind of a run under way.
LEMMA StaysOpen ==
    ASSUME NEW w \in Worker, OpenFor(w), pc[w] \notin {"idle", "closing"},
           ledger'.status = ledger.status, run'[w].kind = run[w].kind
    PROVE  OpenFor(w)'
BY DEF OpenFor, Forced

LEMMA OutdatedKeeps ==
    ASSUME run \in [Worker -> Run], NEW w \in Worker
    PROVE  Outdated[w].kind = run[w].kind /\ Outdated[w].attempt = run[w].attempt
BY DEF Outdated, Run

LEMMA FinalInvariant ==
    ASSUME OneWorker PROVE FinalInv /\ [Next]_vars => FinalInv'
<1> SUFFICES ASSUME FinalInv, [Next]_vars PROVE draft'.status = "todo" /\ \A w \in Worker : OpenFor(w)'
  BY TypeInvariant DEF FinalInv
<1>a. draft'.status = "todo"
  <2>1. CASE PlannerReads
    BY <2>1, Typed DEF FinalInv, PlannerReads, Ledger, TypeOK
  <2>2. CASE ~PlannerReads
    <3>1. draft' \in {draft, NoDraft}
      BY Zenon, <2>2 DEF Next, Continue, vars, Start, SameWork, Outside, Crash, PlannerSaves,
           Prepare, AuditReturns, CloseReturns, EnterProof, BootstrapReturns,
           CheckContract, ReproReturns, EnterCoding, DispatchCoding, SkipCoding,
           AttemptsExhausted, CodingEdits, CodingReturns, EnterDocs, SkipDocs,
           DocsReturns, ReviewReturns, QaReturns, ScopeViolation, ReleaseDry,
           ReleasePushes, ReleaseConflicts, AfterConflict, ReleaseFails, AfterPush,
           Fails
    <3> QED BY <3>1 DEF FinalInv, NoDraft
  <2> QED BY <2>1, <2>2
<1> SUFFICES ASSUME NEW w \in Worker PROVE OpenFor(w)'
  BY <1>a
<1>0. OpenFor(w) /\ pc \in [Worker -> Stage] /\ run \in [Worker -> Run] /\ ledger \in Ledger
  BY Typed DEF FinalInv
<1> USE DEF At, Goto, Return, SetStatus
<1>1. ASSUME Prepare(w) PROVE OpenFor(w)'
  BY <1>0, <1>1, DoneOrOpen, StaysOpen DEF Prepare, SetRun, Final, Ledger, Run
<1>2. ASSUME AuditReturns(w) PROVE OpenFor(w)'
  BY <1>0, <1>2, DoneOrOpen, StaysOpen DEF AuditReturns, SetRun, Final, Ledger, Run
<1>3. ASSUME CloseReturns(w) PROVE OpenFor(w)'
  BY <1>0, <1>3, DoneOrOpen, StaysOpen DEF CloseReturns, SetRun, Final, Ledger, Run
<1>4. ASSUME EnterProof(w) PROVE OpenFor(w)'
  BY <1>0, <1>4, DoneOrOpen, StaysOpen DEF EnterProof, SetRun, Final, Ledger, Run
<1>5. ASSUME BootstrapReturns(w) PROVE OpenFor(w)'
  <2>1. run'[w].kind = run[w].kind
    BY <1>0, <1>5, OutdatedKeeps DEF BootstrapReturns
  <2>2. pc'[w] = "closing" \/ ledger'.status = ledger.status
    BY <1>0, <1>5 DEF BootstrapReturns, Ledger
  <2>3. pc[w] \notin {"idle", "closing"}
    BY <1>5 DEF BootstrapReturns
  <2> QED BY <1>0, <2>1, <2>2, <2>3, DoneOrOpen, StaysOpen
<1>6. ASSUME CheckContract(w) PROVE OpenFor(w)'
  BY <1>0, <1>6, DoneOrOpen, StaysOpen DEF CheckContract, SetRun, Final, Ledger, Run
<1>7. ASSUME ReproReturns(w) PROVE OpenFor(w)'
  BY <1>0, <1>7, DoneOrOpen, StaysOpen DEF ReproReturns, SetRun, Final, Ledger, Run
<1>8. ASSUME EnterCoding(w) PROVE OpenFor(w)'
  BY <1>0, <1>8, DoneOrOpen, StaysOpen DEF EnterCoding, StartAttempt, SetRun, Final,
       Ledger, Run
<1>9. ASSUME DispatchCoding(w) PROVE OpenFor(w)'
  BY <1>0, <1>9, DoneOrOpen, StaysOpen DEF DispatchCoding, AttemptsLeft, SetRun, Final,
       Ledger, Run
<1>10. ASSUME SkipCoding(w) PROVE OpenFor(w)'
  BY <1>0, <1>10, DoneOrOpen, StaysOpen DEF SkipCoding, SetRun, Final, Ledger, Run
<1>11. ASSUME AttemptsExhausted(w) PROVE OpenFor(w)'
  BY <1>0, <1>11, DoneOrOpen, StaysOpen DEF AttemptsExhausted, SetRun, Final, Ledger, Run
<1>12. ASSUME CodingEdits(w) PROVE OpenFor(w)'
  <2>1. run'[w].kind = run[w].kind
    BY <1>0, <1>12, OutdatedKeeps DEF CodingEdits
  <2>2. pc'[w] = "closing" \/ ledger'.status = ledger.status
    BY <1>0, <1>12 DEF CodingEdits, Ledger
  <2>3. pc[w] \notin {"idle", "closing"}
    BY <1>12 DEF CodingEdits
  <2> QED BY <1>0, <2>1, <2>2, <2>3, DoneOrOpen, StaysOpen
<1>13. ASSUME CodingReturns(w) PROVE OpenFor(w)'
  BY <1>0, <1>13, DoneOrOpen, StaysOpen DEF CodingReturns, SetRun, Final, Ledger, Run
<1>14. ASSUME EnterDocs(w) PROVE OpenFor(w)'
  BY <1>0, <1>14, DoneOrOpen, StaysOpen DEF EnterDocs, SetRun, Final, Ledger, Run
<1>15. ASSUME SkipDocs(w) PROVE OpenFor(w)'
  BY <1>0, <1>15, DoneOrOpen, StaysOpen DEF SkipDocs, StartReview, SetRun, Final, Ledger, Run
<1>16. ASSUME DocsReturns(w) PROVE OpenFor(w)'
  BY <1>0, <1>16, DoneOrOpen, StaysOpen DEF DocsReturns, MayEdit, StartReview, SetRun,
       Final, Ledger, Run
<1>17. ASSUME ReviewReturns(w) PROVE OpenFor(w)'
  BY <1>0, <1>17, DoneOrOpen, StaysOpen DEF ReviewReturns, RejectCode, SetRun, Final,
       Ledger, Run
<1>18. ASSUME QaReturns(w) PROVE OpenFor(w)'
  BY <1>0, <1>18, DoneOrOpen, StaysOpen DEF QaReturns, SetRun, Final, Ledger, Run
<1>19. ASSUME ScopeViolation(w) PROVE OpenFor(w)'
  BY <1>0, <1>19, DoneOrOpen, StaysOpen DEF ScopeViolation, SetRun, Final, Ledger, Run
<1>20. ASSUME ReleaseDry(w) PROVE OpenFor(w)'
  BY <1>0, <1>20, DoneOrOpen, StaysOpen DEF ReleaseDry, SetRun, Final, Ledger, Run
<1>21. ASSUME ReleasePushes(w) PROVE OpenFor(w)'
  BY <1>0, <1>21, DoneOrOpen, StaysOpen DEF ReleasePushes, SetRun, Final, Ledger, Run
<1>22. ASSUME ReleaseConflicts(w) PROVE OpenFor(w)'
  BY <1>0, <1>22, DoneOrOpen, StaysOpen DEF ReleaseConflicts, SetRun, Final, Ledger, Run
<1>23. ASSUME AfterConflict(w) PROVE OpenFor(w)'
  BY <1>0, <1>23, DoneOrOpen, StaysOpen DEF AfterConflict, SetRun, Final, Ledger, Run
<1>24. ASSUME ReleaseFails(w) PROVE OpenFor(w)'
  BY <1>0, <1>24, DoneOrOpen, StaysOpen DEF ReleaseFails, SetRun, Final, Ledger, Run
<1>25. ASSUME AfterPush(w) PROVE OpenFor(w)'
  BY <1>0, <1>25, DoneOrOpen, StaysOpen DEF AfterPush, SetRun, Final, Ledger, Run
<1>26. ASSUME Fails(w) PROVE OpenFor(w)'
  BY <1>0, <1>26, DoneOrOpen, StaysOpen DEF Fails, SetRun, Final, Ledger, Run
<1>27. ASSUME NEW kind \in Request, Start(w, kind) PROVE OpenFor(w)'
  BY <1>0, <1>27 DEF Start, Startable, SetRun, OpenFor, Forced, Final, NoRun
<1>28. CASE Crash
  BY <1>28, DoneOrOpen DEF Crash
<1>29. CASE PlannerSaves
  BY <1>29, DoneOrOpen DEF PlannerSaves, FinalInv, Final
<1>30. CASE PlannerReads \/ UNCHANGED vars
  BY <1>0, <1>30 DEF PlannerReads, vars, OpenFor, Forced
<1> QED BY <1>1, <1>2, <1>3, <1>4, <1>5, <1>6, <1>7, <1>8, <1>9, <1>10, <1>11, <1>12, <1>13,
     <1>14, <1>15, <1>16, <1>17, <1>18, <1>19, <1>20, <1>21, <1>22, <1>23, <1>24, <1>25,
     <1>26, <1>27, <1>28, <1>29, <1>30 DEF OneWorker, Next, Continue

LEMMA NotIdle ==
    ASSUME NEW w \in Worker, Continue(w) PROVE pc[w] # "idle"
BY DEF Continue, At, Prepare, AuditReturns, CloseReturns, EnterProof, BootstrapReturns,
     CheckContract, ReproReturns, EnterCoding, DispatchCoding, SkipCoding,
     AttemptsExhausted, CodingEdits, CodingReturns, EnterDocs, SkipDocs, DocsReturns,
     ReviewReturns, QaReturns, ScopeViolation, ReleaseDry, ReleasePushes, ReleaseConflicts,
     AfterConflict, ReleaseFails, AfterPush

LEMMA Closing ==
    ASSUME NEW w \in Worker, Continue(w), pc[w] = "closing" PROVE UNCHANGED ledger
BY DEF Continue, At, Prepare, AuditReturns, CloseReturns, EnterProof, BootstrapReturns,
     CheckContract, ReproReturns, EnterCoding, DispatchCoding, SkipCoding,
     AttemptsExhausted, CodingEdits, CodingReturns, EnterDocs, SkipDocs, DocsReturns,
     ReviewReturns, QaReturns, ScopeViolation, ReleaseDry, ReleasePushes, ReleaseConflicts,
     AfterConflict, ReleaseFails, AfterPush

\* A final status is left only by the planner's hand or by a forced run.
THEOREM FinalStays ==
    ASSUME OneWorker PROVE Spec => FinalStaysFinal
<1>1. Init => FinalInv
  BY InitType DEF Init, FinalInv, OpenFor, NoDraft
<1>2. FinalInv /\ [Next]_vars =>
        [ledger.status \in Final /\ ledger'.status \notin Final =>
           rewrites' # rewrites \/ \E w \in Worker : ~At(w, "idle") /\ Forced(w)]_vars
  <2> SUFFICES ASSUME FinalInv, [Next]_vars, ledger.status \in Final, ledger'.status \notin Final
               PROVE  rewrites' # rewrites \/ \E w \in Worker : ~At(w, "idle") /\ Forced(w)
    OBVIOUS
  <2>1. ASSUME NEW w \in Worker, Continue(w) PROVE ~At(w, "idle") /\ Forced(w)
    <3>1. OpenFor(w)
      BY DEF FinalInv
    <3>2. pc[w] # "idle"
      BY <2>1, NotIdle
    <3>3. pc[w] # "closing"
      BY <2>1, Closing
    <3> QED BY <3>1, <3>2, <3>3 DEF OpenFor, At
  <2>2. ASSUME NEW w \in Worker, Fails(w) PROVE FALSE
    BY <2>2, Typed DEF FinalInv, TypeOK, Fails, SetStatus, Ledger, Final
  <2>3. ASSUME NEW w \in Worker, NEW kind \in Request, Start(w, kind) PROVE FALSE
    BY <2>3 DEF Start
  <2>4. CASE PlannerSaves
    BY <2>4 DEF PlannerSaves, FinalInv, TypeOK
  <2>5. CASE Crash \/ PlannerReads \/ UNCHANGED vars
    BY <2>5 DEF Crash, PlannerReads, vars
  <2> QED BY <2>1, <2>2, <2>3, <2>4, <2>5 DEF Next
<1> QED BY <1>1, <1>2, FinalInvariant, PTL DEF Spec, FinalStaysFinal

------------------------------------------------------------------------------
(* The count of coding runs.                                               *)

\* Where a run's attempt count is already taken over from the ledger.
Counting == {"loop", "coding", "coded", "inner", "docs", "review", "qa", "release", "conflict"}

CountedBy(n) == coded <= MaxAttempts * rewrites + n
CountInv ==
    /\ TypeOK
    /\ CountedBy(ledger.attempt)
    /\ \A w \in Worker : pc[w] \in Counting => CountedBy(run[w].attempt)

\* A step that starts no coding agent, saves no old record and takes no count over.
LEMMA Quiet ==
    ASSUME OneWorker, CountInv, NEW w \in Worker,
           ledger'.attempt = ledger.attempt, coded' = coded, rewrites' = rewrites,
           pc'[w] \in Counting => pc[w] \in Counting /\ run'[w].attempt = run[w].attempt
    PROVE  /\ CountedBy(ledger.attempt)'
           /\ \A v \in Worker : pc'[v] \in Counting => CountedBy(run[v].attempt)'
<1>1. CountedBy(ledger.attempt)'
  BY DEF CountInv, CountedBy
<1>2. pc'[w] \in Counting => CountedBy(run[w].attempt)'
  BY DEF CountInv, CountedBy
<1> QED BY <1>1, <1>2 DEF OneWorker

LEMMA CountInvariant ==
    ASSUME OneWorker PROVE CountInv /\ [Next]_vars => CountInv'
<1> SUFFICES ASSUME CountInv, [Next]_vars
             PROVE /\ CountedBy(ledger.attempt)'
                   /\ \A v \in Worker : pc'[v] \in Counting => CountedBy(run[v].attempt)'
  BY TypeInvariant DEF CountInv
<1>0. /\ pc \in [Worker -> Stage] /\ run \in [Worker -> Run] /\ ledger \in Ledger
      /\ coded \in Nat /\ rewrites \in Nat /\ MaxAttempts * rewrites \in Nat
  <2>1. MaxAttempts * rewrites \in Nat
    BY AttemptsAssumption DEF CountInv, TypeOK
  <2> QED BY <2>1 DEF CountInv, TypeOK
<1> USE DEF At, Goto, Return, SetStatus, SameWork, Outside
<1>1. ASSUME NEW w \in Worker, Prepare(w)
      PROVE  /\ CountedBy(ledger.attempt)'
             /\ \A v \in Worker : pc'[v] \in Counting => CountedBy(run[v].attempt)'
  <2>1. ledger'.attempt = ledger.attempt /\ coded' = coded /\ rewrites' = rewrites
    BY <1>0, <1>1 DEF Prepare, Ledger
  <2>2. pc'[w] \in Counting => pc[w] \in Counting /\ run'[w].attempt = run[w].attempt
    BY <1>0, <1>1 DEF Prepare, SetRun, Counting, Run
  <2> QED BY <2>1, <2>2, Quiet
<1>2. ASSUME NEW w \in Worker, AuditReturns(w)
      PROVE  /\ CountedBy(ledger.attempt)'
             /\ \A v \in Worker : pc'[v] \in Counting => CountedBy(run[v].attempt)'
  <2>1. ledger'.attempt = ledger.attempt /\ coded' = coded /\ rewrites' = rewrites
    BY <1>0, <1>2 DEF AuditReturns, Ledger
  <2>2. pc'[w] \in Counting => pc[w] \in Counting /\ run'[w].attempt = run[w].attempt
    BY <1>0, <1>2 DEF AuditReturns, SetRun, Counting, Run
  <2> QED BY <2>1, <2>2, Quiet
<1>3. ASSUME NEW w \in Worker, CloseReturns(w)
      PROVE  /\ CountedBy(ledger.attempt)'
             /\ \A v \in Worker : pc'[v] \in Counting => CountedBy(run[v].attempt)'
  <2>1. ledger'.attempt = ledger.attempt /\ coded' = coded /\ rewrites' = rewrites
    BY <1>0, <1>3 DEF CloseReturns, Ledger
  <2>2. pc'[w] \in Counting => pc[w] \in Counting /\ run'[w].attempt = run[w].attempt
    BY <1>0, <1>3 DEF CloseReturns, SetRun, Counting, Run
  <2> QED BY <2>1, <2>2, Quiet
<1>4. ASSUME NEW w \in Worker, EnterProof(w)
      PROVE  /\ CountedBy(ledger.attempt)'
             /\ \A v \in Worker : pc'[v] \in Counting => CountedBy(run[v].attempt)'
  <2>1. ledger'.attempt = ledger.attempt /\ coded' = coded /\ rewrites' = rewrites
    BY <1>0, <1>4 DEF EnterProof, Ledger
  <2>2. pc'[w] \in Counting => pc[w] \in Counting /\ run'[w].attempt = run[w].attempt
    BY <1>0, <1>4 DEF EnterProof, SetRun, Counting, Run
  <2> QED BY <2>1, <2>2, Quiet
<1>5. ASSUME NEW w \in Worker, BootstrapReturns(w)
      PROVE  /\ CountedBy(ledger.attempt)'
             /\ \A v \in Worker : pc'[v] \in Counting => CountedBy(run[v].attempt)'
  <2>1. run'[w].attempt = run[w].attempt
    BY <1>0, <1>5, OutdatedKeeps DEF BootstrapReturns
  <2>2. ledger'.attempt = ledger.attempt /\ coded' = coded /\ rewrites' = rewrites
    BY <1>0, <1>5 DEF BootstrapReturns, Ledger
  <2>3. pc'[w] \in Counting => pc[w] \in Counting
    BY <1>0, <1>5 DEF BootstrapReturns, Counting
  <2> QED BY <2>1, <2>2, <2>3, Quiet
<1>6. ASSUME NEW w \in Worker, CheckContract(w)
      PROVE  /\ CountedBy(ledger.attempt)'
             /\ \A v \in Worker : pc'[v] \in Counting => CountedBy(run[v].attempt)'
  <2>1. ledger'.attempt = ledger.attempt /\ coded' = coded /\ rewrites' = rewrites
    BY <1>0, <1>6 DEF CheckContract, Ledger
  <2>2. pc'[w] \in Counting => pc[w] \in Counting /\ run'[w].attempt = run[w].attempt
    BY <1>0, <1>6 DEF CheckContract, SetRun, Counting, Run
  <2> QED BY <2>1, <2>2, Quiet
<1>7. ASSUME NEW w \in Worker, ReproReturns(w)
      PROVE  /\ CountedBy(ledger.attempt)'
             /\ \A v \in Worker : pc'[v] \in Counting => CountedBy(run[v].attempt)'
  <2>1. ledger'.attempt = ledger.attempt /\ coded' = coded /\ rewrites' = rewrites
    BY <1>0, <1>7 DEF ReproReturns, Ledger
  <2>2. pc'[w] \in Counting => pc[w] \in Counting /\ run'[w].attempt = run[w].attempt
    BY <1>0, <1>7 DEF ReproReturns, SetRun, Counting, Run
  <2> QED BY <2>1, <2>2, Quiet
<1>8. ASSUME NEW w \in Worker, EnterCoding(w)
      PROVE  /\ CountedBy(ledger.attempt)'
             /\ \A v \in Worker : pc'[v] \in Counting => CountedBy(run[v].attempt)'
  <2>1. ledger'.attempt = ledger.attempt /\ coded' = coded /\ rewrites' = rewrites
    BY <1>0, <1>8 DEF EnterCoding, Ledger
  <2>2. run'[w].attempt = StartAttempt(w)
    BY <1>0, <1>8 DEF EnterCoding, SetRun, Run
  <2>3. run'[w].attempt \in Nat /\ run'[w].attempt >= ledger.attempt /\ ledger.attempt \in Nat
    BY <1>0, <2>2 DEF StartAttempt, Ledger
  <2>4. CountedBy(ledger.attempt)' /\ CountedBy(run[w].attempt)'
    BY <1>0, <2>1, <2>3 DEF CountInv, CountedBy
  <2> QED BY <2>4 DEF OneWorker
<1>9. ASSUME NEW w \in Worker, DispatchCoding(w)
      PROVE  /\ CountedBy(ledger.attempt)'
             /\ \A v \in Worker : pc'[v] \in Counting => CountedBy(run[v].attempt)'
  <2>1. CountedBy(run[w].attempt) /\ run[w].attempt \in Nat
    BY <1>0, <1>9 DEF DispatchCoding, CountInv, Counting, Run
  <2>2. ledger'.attempt = run[w].attempt + 1 /\ run'[w].attempt = run[w].attempt + 1
    BY <1>0, <1>9 DEF DispatchCoding, SetRun, Ledger, Run
  <2>3. coded' = coded + 1 /\ rewrites' = rewrites
    BY <1>9 DEF DispatchCoding
  <2>4. CountedBy(ledger.attempt)' /\ CountedBy(run[w].attempt)'
    BY <1>0, <2>1, <2>2, <2>3 DEF CountedBy
  <2> QED BY <2>4 DEF OneWorker
<1>10. ASSUME NEW w \in Worker, SkipCoding(w)
      PROVE  /\ CountedBy(ledger.attempt)'
             /\ \A v \in Worker : pc'[v] \in Counting => CountedBy(run[v].attempt)'
  <2>1. ledger'.attempt = ledger.attempt /\ coded' = coded /\ rewrites' = rewrites
    BY <1>0, <1>10 DEF SkipCoding, Ledger
  <2>2. pc'[w] \in Counting => pc[w] \in Counting /\ run'[w].attempt = run[w].attempt
    BY <1>0, <1>10 DEF SkipCoding, SetRun, Counting, Run
  <2> QED BY <2>1, <2>2, Quiet
<1>11. ASSUME NEW w \in Worker, AttemptsExhausted(w)
      PROVE  /\ CountedBy(ledger.attempt)'
             /\ \A v \in Worker : pc'[v] \in Counting => CountedBy(run[v].attempt)'
  <2>1. ledger'.attempt = ledger.attempt /\ coded' = coded /\ rewrites' = rewrites
    BY <1>0, <1>11 DEF AttemptsExhausted, Ledger
  <2>2. pc'[w] \in Counting => pc[w] \in Counting /\ run'[w].attempt = run[w].attempt
    BY <1>0, <1>11 DEF AttemptsExhausted, SetRun, Counting, Run
  <2> QED BY <2>1, <2>2, Quiet
<1>12. ASSUME NEW w \in Worker, CodingEdits(w)
      PROVE  /\ CountedBy(ledger.attempt)'
             /\ \A v \in Worker : pc'[v] \in Counting => CountedBy(run[v].attempt)'
  <2>1. run'[w].attempt = run[w].attempt
    BY <1>0, <1>12, OutdatedKeeps DEF CodingEdits
  <2>2. ledger'.attempt = ledger.attempt /\ coded' = coded /\ rewrites' = rewrites
    BY <1>0, <1>12 DEF CodingEdits, Ledger
  <2>3. pc'[w] \in Counting => pc[w] \in Counting
    BY <1>0, <1>12 DEF CodingEdits, Counting
  <2> QED BY <2>1, <2>2, <2>3, Quiet
<1>13. ASSUME NEW w \in Worker, CodingReturns(w)
      PROVE  /\ CountedBy(ledger.attempt)'
             /\ \A v \in Worker : pc'[v] \in Counting => CountedBy(run[v].attempt)'
  <2>1. ledger'.attempt = ledger.attempt /\ coded' = coded /\ rewrites' = rewrites
    BY <1>0, <1>13 DEF CodingReturns, Ledger
  <2>2. pc'[w] \in Counting => pc[w] \in Counting /\ run'[w].attempt = run[w].attempt
    BY <1>0, <1>13 DEF CodingReturns, SetRun, Counting, Run
  <2> QED BY <2>1, <2>2, Quiet
<1>14. ASSUME NEW w \in Worker, EnterDocs(w)
      PROVE  /\ CountedBy(ledger.attempt)'
             /\ \A v \in Worker : pc'[v] \in Counting => CountedBy(run[v].attempt)'
  <2>1. ledger'.attempt = ledger.attempt /\ coded' = coded /\ rewrites' = rewrites
    BY <1>0, <1>14 DEF EnterDocs, Ledger
  <2>2. pc'[w] \in Counting => pc[w] \in Counting /\ run'[w].attempt = run[w].attempt
    BY <1>0, <1>14 DEF EnterDocs, SetRun, Counting, Run
  <2> QED BY <2>1, <2>2, Quiet
<1>15. ASSUME NEW w \in Worker, SkipDocs(w)
      PROVE  /\ CountedBy(ledger.attempt)'
             /\ \A v \in Worker : pc'[v] \in Counting => CountedBy(run[v].attempt)'
  <2>1. ledger'.attempt = ledger.attempt /\ coded' = coded /\ rewrites' = rewrites
    BY <1>0, <1>15 DEF SkipDocs, StartReview, Ledger
  <2>2. pc'[w] \in Counting => pc[w] \in Counting /\ run'[w].attempt = run[w].attempt
    BY <1>0, <1>15 DEF SkipDocs, StartReview, SetRun, Counting, Run
  <2> QED BY <2>1, <2>2, Quiet
<1>16. ASSUME NEW w \in Worker, DocsReturns(w)
      PROVE  /\ CountedBy(ledger.attempt)'
             /\ \A v \in Worker : pc'[v] \in Counting => CountedBy(run[v].attempt)'
  <2>1. \/ pc'[w] = "idle"
        \/ \E locals \in {run, Outdated} :
              run' = [locals EXCEPT ![w] = [@ EXCEPT !.fresh = TRUE, !.documented = TRUE]]
    BY <1>0, <1>16 DEF DocsReturns, StartReview
  <2>2. Outdated \in [Worker -> Run]
    BY Zenon, <1>0 DEF Outdated, Run
  <2>3. ASSUME NEW locals \in {run, Outdated},
               run' = [locals EXCEPT ![w] = [@ EXCEPT !.fresh = TRUE, !.documented = TRUE]]
        PROVE  run'[w].attempt = run[w].attempt
    <3>1. locals \in [Worker -> Run] /\ locals[w].attempt = run[w].attempt
      BY <1>0, <2>2, OutdatedKeeps
    <3>2. run'[w] = [locals[w] EXCEPT !.fresh = TRUE, !.documented = TRUE] /\ locals[w] \in Run
      BY <2>3, <3>1
    <3> QED BY <3>1, <3>2 DEF Run
  <2>4. ledger'.attempt = ledger.attempt /\ coded' = coded /\ rewrites' = rewrites
    BY <1>0, <1>16 DEF DocsReturns, Ledger
  <2>5. pc'[w] \in Counting => pc[w] \in Counting /\ run'[w].attempt = run[w].attempt
    BY <1>16, <2>1, <2>3 DEF DocsReturns, Counting
  <2> QED BY <2>4, <2>5, Quiet
<1>17. ASSUME NEW w \in Worker, ReviewReturns(w)
      PROVE  /\ CountedBy(ledger.attempt)'
             /\ \A v \in Worker : pc'[v] \in Counting => CountedBy(run[v].attempt)'
  <2> DEFINE next ==
          {[run[w] EXCEPT !.coding = TRUE, !.reviewed = FALSE],
           [run[w] EXCEPT !.reviewed = FALSE],
           [run[w] EXCEPT !.reviewed = run[w].fresh, !.fresh = TRUE]}
  <2>1. ledger'.attempt = ledger.attempt /\ coded' = coded /\ rewrites' = rewrites
    BY <1>0, <1>17 DEF ReviewReturns, RejectCode, Ledger
  <2>2. pc'[w] = "idle" \/ \E locals \in next : run' = [run EXCEPT ![w] = locals]
    BY <1>0, <1>17 DEF ReviewReturns, RejectCode, SetRun
  <2>3. \A locals \in next : locals.attempt = run[w].attempt
    BY <1>0 DEF Run
  <2>4. pc'[w] \in Counting => run'[w].attempt = run[w].attempt
    BY <1>0, <2>2, <2>3 DEF Counting
  <2>5. pc[w] \in Counting
    BY <1>17 DEF ReviewReturns, RejectCode, Counting
  <2> QED BY <2>1, <2>4, <2>5, Quiet
<1>18. ASSUME NEW w \in Worker, QaReturns(w)
      PROVE  /\ CountedBy(ledger.attempt)'
             /\ \A v \in Worker : pc'[v] \in Counting => CountedBy(run[v].attempt)'
  <2> DEFINE next ==
          {[run[w] EXCEPT !.coding = TRUE, !.tested = FALSE],
           [run[w] EXCEPT !.tested = run[w].fresh]}
  <2>1. ledger'.attempt = ledger.attempt /\ coded' = coded /\ rewrites' = rewrites
    BY <1>0, <1>18 DEF QaReturns, Ledger
  <2>2. pc'[w] = "idle" \/ \E locals \in next : run' = [run EXCEPT ![w] = locals]
    BY <1>0, <1>18 DEF QaReturns, SetRun
  <2>3. \A locals \in next : locals.attempt = run[w].attempt
    BY <1>0 DEF Run
  <2>4. pc'[w] \in Counting => run'[w].attempt = run[w].attempt
    BY <1>0, <2>2, <2>3 DEF Counting
  <2>5. pc[w] \in Counting
    BY <1>18 DEF QaReturns, Counting
  <2> QED BY <2>1, <2>4, <2>5, Quiet
<1>19. ASSUME NEW w \in Worker, ScopeViolation(w)
      PROVE  /\ CountedBy(ledger.attempt)'
             /\ \A v \in Worker : pc'[v] \in Counting => CountedBy(run[v].attempt)'
  <2>1. ledger'.attempt = ledger.attempt /\ coded' = coded /\ rewrites' = rewrites
    BY <1>0, <1>19 DEF ScopeViolation, Ledger
  <2>2. pc'[w] \in Counting => pc[w] \in Counting /\ run'[w].attempt = run[w].attempt
    BY <1>0, <1>19 DEF ScopeViolation, SetRun, Counting, Run
  <2> QED BY <2>1, <2>2, Quiet
<1>20. ASSUME NEW w \in Worker, ReleaseDry(w)
      PROVE  /\ CountedBy(ledger.attempt)'
             /\ \A v \in Worker : pc'[v] \in Counting => CountedBy(run[v].attempt)'
  <2>1. ledger'.attempt = ledger.attempt /\ coded' = coded /\ rewrites' = rewrites
    BY <1>0, <1>20 DEF ReleaseDry, Ledger
  <2>2. pc'[w] \in Counting => pc[w] \in Counting /\ run'[w].attempt = run[w].attempt
    BY <1>0, <1>20 DEF ReleaseDry, SetRun, Counting, Run
  <2> QED BY <2>1, <2>2, Quiet
<1>21. ASSUME NEW w \in Worker, ReleasePushes(w)
      PROVE  /\ CountedBy(ledger.attempt)'
             /\ \A v \in Worker : pc'[v] \in Counting => CountedBy(run[v].attempt)'
  <2>1. ledger'.attempt = ledger.attempt /\ coded' = coded /\ rewrites' = rewrites
    BY <1>0, <1>21 DEF ReleasePushes, Ledger
  <2>2. pc'[w] \in Counting => pc[w] \in Counting /\ run'[w].attempt = run[w].attempt
    BY <1>0, <1>21 DEF ReleasePushes, SetRun, Counting, Run
  <2> QED BY <2>1, <2>2, Quiet
<1>22. ASSUME NEW w \in Worker, ReleaseConflicts(w)
      PROVE  /\ CountedBy(ledger.attempt)'
             /\ \A v \in Worker : pc'[v] \in Counting => CountedBy(run[v].attempt)'
  <2>1. ledger'.attempt = ledger.attempt /\ coded' = coded /\ rewrites' = rewrites
    BY <1>0, <1>22 DEF ReleaseConflicts, Ledger
  <2>2. pc'[w] \in Counting => pc[w] \in Counting /\ run'[w].attempt = run[w].attempt
    BY <1>0, <1>22 DEF ReleaseConflicts, SetRun, Counting, Run
  <2> QED BY <2>1, <2>2, Quiet
<1>23. ASSUME NEW w \in Worker, AfterConflict(w)
      PROVE  /\ CountedBy(ledger.attempt)'
             /\ \A v \in Worker : pc'[v] \in Counting => CountedBy(run[v].attempt)'
  <2>1. ledger'.attempt = ledger.attempt /\ coded' = coded /\ rewrites' = rewrites
    BY <1>0, <1>23 DEF AfterConflict, Ledger
  <2>2. pc'[w] \in Counting => pc[w] \in Counting /\ run'[w].attempt = run[w].attempt
    BY <1>0, <1>23 DEF AfterConflict, SetRun, Counting, Run
  <2> QED BY <2>1, <2>2, Quiet
<1>24. ASSUME NEW w \in Worker, ReleaseFails(w)
      PROVE  /\ CountedBy(ledger.attempt)'
             /\ \A v \in Worker : pc'[v] \in Counting => CountedBy(run[v].attempt)'
  <2>1. ledger'.attempt = ledger.attempt /\ coded' = coded /\ rewrites' = rewrites
    BY <1>0, <1>24 DEF ReleaseFails, Ledger
  <2>2. pc'[w] \in Counting => pc[w] \in Counting /\ run'[w].attempt = run[w].attempt
    BY <1>0, <1>24 DEF ReleaseFails, SetRun, Counting, Run
  <2> QED BY <2>1, <2>2, Quiet
<1>25. ASSUME NEW w \in Worker, AfterPush(w)
      PROVE  /\ CountedBy(ledger.attempt)'
             /\ \A v \in Worker : pc'[v] \in Counting => CountedBy(run[v].attempt)'
  <2>1. ledger'.attempt = ledger.attempt /\ coded' = coded /\ rewrites' = rewrites
    BY <1>0, <1>25 DEF AfterPush, Ledger
  <2>2. pc'[w] \in Counting => pc[w] \in Counting /\ run'[w].attempt = run[w].attempt
    BY <1>0, <1>25 DEF AfterPush, SetRun, Counting, Run
  <2> QED BY <2>1, <2>2, Quiet
<1>26. ASSUME NEW w \in Worker, Fails(w)
      PROVE  /\ CountedBy(ledger.attempt)'
             /\ \A v \in Worker : pc'[v] \in Counting => CountedBy(run[v].attempt)'
  <2>1. ledger'.attempt = ledger.attempt /\ coded' = coded /\ rewrites' = rewrites
    BY <1>0, <1>26 DEF Fails, Ledger
  <2>2. pc'[w] \in Counting => pc[w] \in Counting /\ run'[w].attempt = run[w].attempt
    BY <1>0, <1>26 DEF Fails, SetRun, Counting, Run
  <2> QED BY <2>1, <2>2, Quiet
<1>27. ASSUME NEW w \in Worker, NEW kind \in Request, Start(w, kind)
      PROVE  /\ CountedBy(ledger.attempt)'
             /\ \A v \in Worker : pc'[v] \in Counting => CountedBy(run[v].attempt)'
  BY <1>0, <1>27, Quiet DEF Start, Counting
<1>28. CASE Crash
  BY <1>28 DEF Crash, CountInv, CountedBy, Counting
<1>29. CASE PlannerSaves
  <2>1. ledger' = draft /\ rewrites' = rewrites + 1 /\ coded' = coded /\ UNCHANGED <<pc, run>>
    BY <1>29 DEF PlannerSaves
  <2>2. MaxAttempts * rewrites' = MaxAttempts * rewrites + MaxAttempts /\ MaxAttempts \in Nat
    BY <1>0, <2>1, AttemptsAssumption
  <2>3. ledger.attempt \in Nat /\ ledger.attempt <= MaxAttempts /\ draft.attempt \in Nat
    BY <1>0 DEF CountInv, TypeOK, Ledger
  <2>4. coded <= MaxAttempts * rewrites + MaxAttempts
    BY <1>0, <2>2, <2>3 DEF CountInv, CountedBy
  <2>5. CountedBy(ledger.attempt)'
    BY <1>0, <2>1, <2>2, <2>3, <2>4 DEF CountedBy
  <2>6. ASSUME NEW v \in Worker, pc'[v] \in Counting PROVE CountedBy(run[v].attempt)'
    <3>1. run[v].attempt \in Nat
      BY <1>0 DEF Run
    <3> QED BY <1>0, <2>1, <2>2, <2>4, <3>1 DEF CountedBy
  <2> QED BY <2>5, <2>6
<1>30. CASE PlannerReads \/ UNCHANGED vars
  BY <1>30 DEF PlannerReads, vars, CountInv, CountedBy
<1> QED BY <1>1, <1>2, <1>3, <1>4, <1>5, <1>6, <1>7, <1>8, <1>9, <1>10, <1>11, <1>12, <1>13,
     <1>14, <1>15, <1>16, <1>17, <1>18, <1>19, <1>20, <1>21, <1>22, <1>23, <1>24, <1>25,
     <1>26, <1>27, <1>28, <1>29, <1>30 DEF Next, Continue

\* However often the process dies and the task is taken up again, coding runs
\* at most MaxAttempts times, and that often again for each save of an old record.
THEOREM CodingBounded ==
    ASSUME OneWorker PROVE Spec => []CodingRunsBounded
<1>1. Init => CountInv
  <2> SUFFICES ASSUME Init PROVE CountInv
    OBVIOUS
  <2>1. MaxAttempts * rewrites = 0
    BY AttemptsAssumption DEF Init
  <2> QED BY <2>1, InitType DEF Init, CountInv, CountedBy, Counting
<1>2. CountInv => CodingRunsBounded
  <2> SUFFICES ASSUME CountInv PROVE CodingRunsBounded
    OBVIOUS
  <2>1. /\ coded \in Nat /\ rewrites \in Nat /\ MaxAttempts \in Nat
        /\ ledger.attempt \in Nat /\ ledger.attempt <= MaxAttempts
    BY AttemptsAssumption DEF CountInv, TypeOK, Ledger
  <2>2. MaxAttempts * (1 + rewrites) = MaxAttempts * rewrites + MaxAttempts
    BY <2>1
  <2>3. MaxAttempts * rewrites \in Nat
    BY <2>1
  <2> QED BY <2>1, <2>2, <2>3 DEF CountInv, CountedBy, CodingRunsBounded
<1> QED BY <1>1, <1>2, CountInvariant, PTL DEF Spec
==============================================================================
