------------------------- MODULE AnchoringPageProofs --------------------------
(***************************************************************************)
(* Proofs about AnchoringPage for any number of records, proof requests    *)
(* and visits.  Inv is inductive: one lemma per action, with one step for  *)
(* each of its conjuncts.                                                  *)
(***************************************************************************)
EXTENDS AnchoringPage, FiniteSetTheorems, TLAPS

LEMMA InitInv == Init => Inv
  <1> USE PageAssumption, NoneAssumption
  <1>. SUFFICES ASSUME Init PROVE Inv
    OBVIOUS
  <1>1. TypeOK
    <2>1. server \in Server
      BY DEF Init, Server, Records
    <2>2. page \in Page
      BY DEF Init, FreshPage, Page, Statuses, Faults, Verdicts
    <2>3. load \in Load /\ call \in Call /\ proofs \in [Fetches -> Proof]
      BY DEF Init, SentLoad, NoCall, NoProof, Load, Call, Proof, Statuses
    <2>4. visits \in 0 .. MaxVisits
      BY DEF Init
    <2>5. crossed \in BOOLEAN
      BY DEF Init
    <2>. QED
      BY <2>1, <2>2, <2>3, <2>4, <2>5 DEF TypeOK
  <1>2. RequestsApart /\ SelectionFresh /\ CallCoherent
    BY DEF Init, FreshPage, SentLoad, NoCall, RequestsApart, SelectionFresh, CallCoherent, Unanchored
  <1>3. AnswersTrue /\ OneUncrossed
    BY DEF Init, SentLoad, NoProof, AnswersTrue, OneUncrossed, InFlight
  <1>. QED
    BY <1>1, <1>2, <1>3 DEF Inv

LEMMA ServeLoadInv == ASSUME Inv, ServeLoad PROVE Inv'
  <1> USE PageAssumption, NoneAssumption DEF Inv, ServeLoad, Newest
  <1>1. TypeOK'
    <2>1. server' \in Server
      BY DEF TypeOK, Server, Call, Records
    <2>2. page' \in Page
      BY DEF TypeOK, Page, Load, Call, Proof, Statuses, Faults, Verdicts
    <2>3. load' \in Load
      <3>1. Newest \subseteq Records
        BY DEF TypeOK, Server, Records, Newest
      <3>2. load' = [load EXCEPT !.step = "listed", !.listed = Newest,
                                 !.anchored = Newest \cap server.anchored]
        OBVIOUS
      <3>. QED
        BY <3>1, <3>2 DEF TypeOK, Load
    <2>4. call' \in Call
      BY DEF TypeOK, Call, Statuses
    <2>5. proofs' \in [Fetches -> Proof]
      BY DEF TypeOK, Proof
    <2>. QED
      BY <2>1, <2>2, <2>3, <2>4, <2>5 DEF TypeOK
  <1>2. RequestsApart'
    BY DEF TypeOK, Page, Load, Call, RequestsApart, Unanchored
  <1>3. SelectionFresh'
    BY DEF TypeOK, Page, Load, Call, RequestsApart, SelectionFresh, Unanchored
  <1>4. CallCoherent'
    BY DEF TypeOK, Server, Page, Call, RequestsApart, SelectionFresh, CallCoherent, Unanchored
  <1>5. AnswersTrue'
    BY DEF TypeOK, Server, Page, Load, Proof, CallCoherent, AnswersTrue
  <1>6. OneUncrossed'
    BY DEF TypeOK, Proof, OneUncrossed, InFlight
  <1>. QED
    BY <1>1, <1>2, <1>3, <1>4, <1>5, <1>6

LEMMA LoadFailsInv == ASSUME Inv, LoadFails PROVE Inv'
  <1> USE PageAssumption, NoneAssumption DEF Inv, LoadFails
  <1>1. TypeOK'
    BY DEF TypeOK, Server, Page, Load, Call, Proof, Statuses, Faults, Verdicts, Records, Unanchored
  <1>2. RequestsApart'
    BY DEF TypeOK, Page, Load, Call, RequestsApart, Unanchored
  <1>3. SelectionFresh'
    BY DEF TypeOK, Page, Load, Call, RequestsApart, SelectionFresh, Unanchored
  <1>4. CallCoherent'
    BY DEF TypeOK, Server, Page, Call, RequestsApart, SelectionFresh, CallCoherent, Unanchored
  <1>5. AnswersTrue'
    BY DEF TypeOK, Server, Page, Load, Proof, CallCoherent, AnswersTrue
  <1>6. OneUncrossed'
    BY DEF TypeOK, Proof, OneUncrossed, InFlight
  <1>. QED
    BY <1>1, <1>2, <1>3, <1>4, <1>5, <1>6

LEMMA DeliverMountInv == ASSUME Inv, DeliverMount PROVE Inv'
  <1> USE PageAssumption, NoneAssumption DEF Inv, DeliverMount, Listed, NotListed, NoLoad
  <1>1. TypeOK'
    <2>1. server' \in Server
      BY DEF TypeOK, Server, Call, Records
    <2>2. page' \in Page
      <3>1. load.listed \in SUBSET Records /\ load.anchored \in SUBSET Records
        BY DEF TypeOK, Load
      <3>2. page \in Page
        BY DEF TypeOK
      <3>3. Listed \in Page /\ NotListed \in Page
        BY <3>1, <3>2 DEF Page
      <3>. QED
        BY <3>3
    <2>3. load' \in Load
      BY DEF TypeOK, Load, Server, Records
    <2>4. call' \in Call
      BY DEF TypeOK, Call, Statuses
    <2>5. proofs' \in [Fetches -> Proof]
      BY DEF TypeOK, Proof
    <2>. QED
      BY <2>1, <2>2, <2>3, <2>4, <2>5 DEF TypeOK
  <1>2. RequestsApart'
    BY DEF TypeOK, Page, Load, Call, RequestsApart, Unanchored
  <1>3. SelectionFresh'
    BY DEF TypeOK, Page, Load, Call, RequestsApart, SelectionFresh, Unanchored
  <1>4. CallCoherent'
    BY DEF TypeOK, Server, Page, Call, RequestsApart, SelectionFresh, CallCoherent, Unanchored
  <1>5. AnswersTrue'
    BY DEF TypeOK, Server, Page, Load, Proof, CallCoherent, AnswersTrue
  <1>6. OneUncrossed'
    BY DEF TypeOK, Proof, OneUncrossed, InFlight
  <1>. QED
    BY <1>1, <1>2, <1>3, <1>4, <1>5, <1>6

LEMMA DeliverRefreshInv == ASSUME Inv, DeliverRefresh PROVE Inv'
  <1> USE PageAssumption, NoneAssumption DEF Inv, DeliverRefresh, Listed, NotListed, NoLoad
  <1>1. TypeOK'
    <2>1. server' \in Server
      BY DEF TypeOK, Server, Call, Records
    <2>2. page' \in Page
      <3>1. load.listed \in SUBSET Records /\ load.anchored \in SUBSET Records
        BY DEF TypeOK, Load
      <3>2. page \in Page
        BY DEF TypeOK
      <3>3. Listed \in Page /\ NotListed \in Page
        BY <3>1, <3>2 DEF Page
      <3>4. ASSUME NEW p \in Page
            PROVE  [p EXCEPT !.selected = {}, !.running = FALSE] \in Page
        BY DEF Page
      <3>. QED
        BY <3>3, <3>4
    <2>3. load' \in Load
      BY DEF TypeOK, Load, Server, Records
    <2>4. call' \in Call
      BY DEF TypeOK, Call, Statuses
    <2>5. proofs' \in [Fetches -> Proof]
      BY DEF TypeOK, Proof
    <2>. QED
      BY <2>1, <2>2, <2>3, <2>4, <2>5 DEF TypeOK
  <1>2. RequestsApart'
    BY DEF TypeOK, Page, Load, Call, RequestsApart, Unanchored
  <1>3. SelectionFresh'
    BY ZenonT(60) DEF TypeOK, Page, Load, Call, RequestsApart, SelectionFresh, Unanchored
  <1>4. CallCoherent'
    BY DEF TypeOK, Server, Page, Call, RequestsApart, SelectionFresh, CallCoherent, Unanchored
  <1>5. AnswersTrue'
    BY DEF TypeOK, Server, Page, Load, Proof, CallCoherent, AnswersTrue
  <1>6. OneUncrossed'
    BY DEF TypeOK, Proof, OneUncrossed, InFlight
  <1>. QED
    BY <1>1, <1>2, <1>3, <1>4, <1>5, <1>6

LEMMA ToggleSelectInv == ASSUME Inv, NEW r \in Records, ToggleSelect(r) PROVE Inv'
  <1> USE PageAssumption, NoneAssumption DEF Inv, ToggleSelect, TableShown
  <1>1. TypeOK'
    BY DEF TypeOK, Server, Page, Load, Call, Proof, Statuses, Faults, Verdicts, Records, Unanchored
  <1>2. RequestsApart'
    BY DEF TypeOK, Page, Load, Call, RequestsApart, Unanchored
  <1>3. SelectionFresh'
    BY DEF TypeOK, Page, Load, Call, RequestsApart, SelectionFresh, Unanchored
  <1>4. CallCoherent'
    BY DEF TypeOK, Server, Page, Call, RequestsApart, SelectionFresh, CallCoherent, Unanchored
  <1>5. AnswersTrue'
    BY DEF TypeOK, Server, Page, Load, Proof, CallCoherent, AnswersTrue
  <1>6. OneUncrossed'
    BY DEF TypeOK, Proof, OneUncrossed, InFlight
  <1>. QED
    BY <1>1, <1>2, <1>3, <1>4, <1>5, <1>6

LEMMA SelectAllInv == ASSUME Inv, SelectAll PROVE Inv'
  <1> USE PageAssumption, NoneAssumption DEF Inv, SelectAll, AllSelected
  <1>1. TypeOK'
    BY DEF TypeOK, Server, Page, Load, Call, Proof, Statuses, Faults, Verdicts, Records, Unanchored
  <1>2. RequestsApart'
    BY DEF TypeOK, Page, Load, Call, RequestsApart, Unanchored
  <1>3. SelectionFresh'
    BY DEF TypeOK, Page, Load, Call, RequestsApart, SelectionFresh, Unanchored
  <1>4. CallCoherent'
    BY DEF TypeOK, Server, Page, Call, RequestsApart, SelectionFresh, CallCoherent, Unanchored
  <1>5. AnswersTrue'
    BY DEF TypeOK, Server, Page, Load, Proof, CallCoherent, AnswersTrue
  <1>6. OneUncrossed'
    BY DEF TypeOK, Proof, OneUncrossed, InFlight
  <1>. QED
    BY <1>1, <1>2, <1>3, <1>4, <1>5, <1>6

LEMMA OnAnchorInv == ASSUME Inv, OnAnchor PROVE Inv'
  <1> USE PageAssumption, NoneAssumption DEF Inv, OnAnchor, AnchorEnabled, TableShown, NoCall
  <1>1. TypeOK'
    BY DEF TypeOK, Server, Page, Load, Call, Proof, Statuses, Faults, Verdicts, Records, Unanchored
  <1>2. RequestsApart'
    BY DEF TypeOK, Page, Load, Call, RequestsApart, Unanchored
  <1>3. SelectionFresh'
    BY DEF TypeOK, Page, Load, Call, RequestsApart, SelectionFresh, Unanchored
  <1>4. CallCoherent'
    BY DEF TypeOK, Server, Page, Call, RequestsApart, SelectionFresh, CallCoherent, Unanchored
  <1>5. AnswersTrue'
    BY DEF TypeOK, Server, Page, Load, Proof, CallCoherent, AnswersTrue
  <1>6. OneUncrossed'
    BY DEF TypeOK, Proof, OneUncrossed, InFlight
  <1>. QED
    BY <1>1, <1>2, <1>3, <1>4, <1>5, <1>6

LEMMA SelectBatchInv == ASSUME Inv, SelectBatch PROVE Inv'
  <1> USE PageAssumption, NoneAssumption DEF Inv, SelectBatch
  <1>1. TypeOK'
    <2>1. server' \in Server
      BY DEF TypeOK, Server, Call, Records
    <2>2. page' \in Page
      BY DEF TypeOK, Page, Load, Call, Proof, Statuses, Faults, Verdicts
    <2>3. load' \in Load
      BY DEF TypeOK, Load, Server, Records
    <2>4. call' \in Call
      BY DEF TypeOK, Call, Statuses
    <2>5. proofs' \in [Fetches -> Proof]
      BY DEF TypeOK, Proof
    <2>. QED
      BY <2>1, <2>2, <2>3, <2>4, <2>5 DEF TypeOK
  <1>2. RequestsApart'
    BY DEF TypeOK, Page, Load, Call, RequestsApart, Unanchored
  <1>3. SelectionFresh'
    BY DEF TypeOK, Page, Load, Call, RequestsApart, SelectionFresh, Unanchored
  <1>4. CallCoherent'
    BY DEF TypeOK, Server, Page, Call, RequestsApart, SelectionFresh, CallCoherent, Unanchored
  <1>5. AnswersTrue'
    BY DEF TypeOK, Server, Page, Load, Proof, CallCoherent, AnswersTrue
  <1>6. OneUncrossed'
    BY DEF TypeOK, Proof, OneUncrossed, InFlight
  <1>. QED
    BY <1>1, <1>2, <1>3, <1>4, <1>5, <1>6

LEMMA SubmitBatchInv == ASSUME Inv, SubmitBatch PROVE Inv'
  <1> USE PageAssumption, NoneAssumption DEF Inv, SubmitBatch
  <1>1. TypeOK'
    <2>1. server' \in Server
      BY DEF TypeOK, Server, Call, Records
    <2>2. page' \in Page
      BY DEF TypeOK, Page, Load, Call, Proof, Statuses, Faults, Verdicts
    <2>3. load' \in Load
      BY DEF TypeOK, Load, Server, Records
    <2>4. call' \in Call
      BY DEF TypeOK, Call, Statuses
    <2>5. proofs' \in [Fetches -> Proof]
      BY DEF TypeOK, Proof
    <2>. QED
      BY <2>1, <2>2, <2>3, <2>4, <2>5 DEF TypeOK
  <1>2. RequestsApart'
    BY DEF TypeOK, Page, Load, Call, RequestsApart, Unanchored
  <1>3. SelectionFresh'
    BY DEF TypeOK, Page, Load, Call, RequestsApart, SelectionFresh, Unanchored
  <1>4. CallCoherent'
    BY DEF TypeOK, Server, Page, Call, RequestsApart, SelectionFresh, CallCoherent, Unanchored
  <1>5. AnswersTrue'
    BY DEF TypeOK, Server, Page, Load, Proof, CallCoherent, AnswersTrue
  <1>6. OneUncrossed'
    BY DEF TypeOK, Proof, OneUncrossed, InFlight
  <1>. QED
    BY <1>1, <1>2, <1>3, <1>4, <1>5, <1>6

LEMMA SubmitFailsInv == ASSUME Inv, SubmitFails PROVE Inv'
  <1> USE PageAssumption, NoneAssumption DEF Inv, SubmitFails
  <1>1. TypeOK'
    <2>1. server' \in Server
      BY DEF TypeOK, Server, Call, Records
    <2>2. page' \in Page
      BY DEF TypeOK, Page, Load, Call, Proof, Statuses, Faults, Verdicts
    <2>3. load' \in Load
      BY DEF TypeOK, Load, Server, Records
    <2>4. call' \in Call
      BY DEF TypeOK, Call, Statuses
    <2>5. proofs' \in [Fetches -> Proof]
      BY DEF TypeOK, Proof
    <2>. QED
      BY <2>1, <2>2, <2>3, <2>4, <2>5 DEF TypeOK
  <1>2. RequestsApart'
    BY DEF TypeOK, Page, Load, Call, RequestsApart, Unanchored
  <1>3. SelectionFresh'
    BY DEF TypeOK, Page, Load, Call, RequestsApart, SelectionFresh, Unanchored
  <1>4. CallCoherent'
    BY DEF TypeOK, Server, Page, Call, RequestsApart, SelectionFresh, CallCoherent, Unanchored
  <1>5. AnswersTrue'
    BY DEF TypeOK, Server, Page, Load, Proof, CallCoherent, AnswersTrue
  <1>6. OneUncrossed'
    BY DEF TypeOK, Proof, OneUncrossed, InFlight
  <1>. QED
    BY <1>1, <1>2, <1>3, <1>4, <1>5, <1>6

LEMMA CallFailsInv == ASSUME Inv, CallFails PROVE Inv'
  <1> USE PageAssumption, NoneAssumption DEF Inv, CallFails
  <1>1. TypeOK'
    BY DEF TypeOK, Server, Page, Load, Call, Proof, Statuses, Faults, Verdicts, Records, Unanchored
  <1>2. RequestsApart'
    BY DEF TypeOK, Page, Load, Call, RequestsApart, Unanchored
  <1>3. SelectionFresh'
    BY DEF TypeOK, Page, Load, Call, RequestsApart, SelectionFresh, Unanchored
  <1>4. CallCoherent'
    BY DEF TypeOK, Server, Page, Call, RequestsApart, SelectionFresh, CallCoherent, Unanchored
  <1>5. AnswersTrue'
    BY DEF TypeOK, Server, Page, Load, Proof, CallCoherent, AnswersTrue
  <1>6. OneUncrossed'
    BY DEF TypeOK, Proof, OneUncrossed, InFlight
  <1>. QED
    BY <1>1, <1>2, <1>3, <1>4, <1>5, <1>6

LEMMA DeliverResultInv == ASSUME Inv, DeliverResult PROVE Inv'
  <1> USE PageAssumption, NoneAssumption DEF Inv, DeliverResult, SentLoad, NoCall
  <1>1. TypeOK'
    BY DEF TypeOK, Server, Page, Load, Call, Proof, Statuses, Faults, Verdicts, Records, Unanchored
  <1>2. RequestsApart'
    BY DEF TypeOK, Page, Load, Call, RequestsApart, Unanchored
  <1>3. SelectionFresh'
    BY DEF TypeOK, Page, Load, Call, RequestsApart, SelectionFresh, Unanchored
  <1>4. CallCoherent'
    BY DEF TypeOK, Server, Page, Call, RequestsApart, SelectionFresh, CallCoherent, Unanchored
  <1>5. AnswersTrue'
    BY DEF TypeOK, Server, Page, Load, Proof, CallCoherent, AnswersTrue
  <1>6. OneUncrossed'
    BY DEF TypeOK, Proof, OneUncrossed, InFlight
  <1>. QED
    BY <1>1, <1>2, <1>3, <1>4, <1>5, <1>6

LEMMA DeliverFaultInv == ASSUME Inv, DeliverFault PROVE Inv'
  <1> USE PageAssumption, NoneAssumption DEF Inv, DeliverFault, NoCall
  <1>1. TypeOK'
    BY ZenonT(60) DEF TypeOK, Server, Page, Load, Call, Proof, Statuses, Faults, Verdicts, Records,
       Unanchored
  <1>2. RequestsApart'
    BY DEF TypeOK, Page, Load, Call, RequestsApart, Unanchored
  <1>3. SelectionFresh'
    BY DEF TypeOK, Page, Load, Call, RequestsApart, SelectionFresh, Unanchored
  <1>4. CallCoherent'
    BY DEF TypeOK, Server, Page, Call, RequestsApart, SelectionFresh, CallCoherent, Unanchored
  <1>5. AnswersTrue'
    BY DEF TypeOK, Server, Page, Load, Proof, CallCoherent, AnswersTrue
  <1>6. OneUncrossed'
    BY DEF TypeOK, Proof, OneUncrossed, InFlight
  <1>. QED
    BY <1>1, <1>2, <1>3, <1>4, <1>5, <1>6

LEMMA OnGenerateProofInv == ASSUME Inv, NEW f \in Fetches, NEW r \in Records, OnGenerateProof(f, r) PROVE Inv'
  <1> USE PageAssumption, NoneAssumption DEF Inv, OnGenerateProof, ProofEnabled, ProofTable
  <1>1. TypeOK'
    BY ZenonT(60) DEF TypeOK, Server, Page, Load, Call, Proof, Statuses, Faults, Verdicts, Records,
       Unanchored
  <1>2. RequestsApart'
    BY DEF TypeOK, Page, Load, Call, RequestsApart, Unanchored
  <1>3. SelectionFresh'
    BY DEF TypeOK, Page, Load, Call, RequestsApart, SelectionFresh, Unanchored
  <1>4. CallCoherent'
    BY DEF TypeOK, Server, Page, Call, RequestsApart, SelectionFresh, CallCoherent, Unanchored
  <1>5. AnswersTrue'
    BY DEF TypeOK, Server, Page, Load, Proof, CallCoherent, AnswersTrue
  <1>6. OneUncrossed'
    BY DEF TypeOK, Proof, OneUncrossed, InFlight
  <1>. QED
    BY <1>1, <1>2, <1>3, <1>4, <1>5, <1>6

LEMMA ServeProofInv == ASSUME Inv, NEW f \in Fetches, ServeProof(f) PROVE Inv'
  <1> USE PageAssumption, NoneAssumption DEF Inv, ServeProof
  <1>1. TypeOK'
    BY DEF TypeOK, Server, Page, Load, Call, Proof, Statuses, Faults, Verdicts, Records, Unanchored
  <1>2. RequestsApart'
    BY DEF TypeOK, Page, Load, Call, RequestsApart, Unanchored
  <1>3. SelectionFresh'
    BY DEF TypeOK, Page, Load, Call, RequestsApart, SelectionFresh, Unanchored
  <1>4. CallCoherent'
    BY DEF TypeOK, Server, Page, Call, RequestsApart, SelectionFresh, CallCoherent, Unanchored
  <1>5. AnswersTrue'
    BY DEF TypeOK, Server, Page, Load, Proof, CallCoherent, AnswersTrue
  <1>6. OneUncrossed'
    BY DEF TypeOK, Proof, OneUncrossed, InFlight
  <1>. QED
    BY <1>1, <1>2, <1>3, <1>4, <1>5, <1>6

LEMMA DeliverProofInv == ASSUME Inv, NEW f \in Fetches, DeliverProof(f) PROVE Inv'
  <1> USE PageAssumption, NoneAssumption DEF Inv, DeliverProof, NoProof
  <1>1. TypeOK'
    <2>1. server' \in Server
      BY DEF TypeOK, Server, Call, Records
    <2>2. page' \in Page
      <3>1. proofs[f] \in Proof
        BY DEF TypeOK
      <3>2. CASE page' = [page EXCEPT !.proofError = TRUE, !.proofLoading = FALSE]
        BY <3>2 DEF TypeOK, Page
      <3>3. CASE /\ proofs[f].step \in {"valid", "invalid"}
                 /\ page' = [page EXCEPT !.proof = proofs[f].of, !.verdict = proofs[f].step,
                                         !.proofLoading = FALSE]
        BY <3>1, <3>3 DEF TypeOK, Page, Proof, Verdicts
      <3>. QED
        BY <3>2, <3>3
    <2>3. load' \in Load
      BY DEF TypeOK, Load, Server, Records
    <2>4. call' \in Call
      BY DEF TypeOK, Call, Statuses
    <2>5. proofs' \in [Fetches -> Proof]
      BY DEF TypeOK, Proof
    <2>. QED
      BY <2>1, <2>2, <2>3, <2>4, <2>5 DEF TypeOK
  <1>2. RequestsApart'
    BY ZenonT(60) DEF RequestsApart, TypeOK, Page
  <1>3. SelectionFresh'
    BY ZenonT(60) DEF TypeOK, Page, Load, Call, RequestsApart, SelectionFresh, Unanchored
  <1>4. CallCoherent'
    BY DEF TypeOK, Server, Page, Call, RequestsApart, SelectionFresh, CallCoherent, Unanchored
  <1>5. AnswersTrue'
    BY DEF TypeOK, Server, Page, Load, Proof, CallCoherent, AnswersTrue
  <1>6. OneUncrossed'
    BY DEF TypeOK, Proof, OneUncrossed, InFlight
  <1>. QED
    BY <1>1, <1>2, <1>3, <1>4, <1>5, <1>6

LEMMA NewRecordInv == ASSUME Inv, NewRecord PROVE Inv'
  <1> USE PageAssumption, NoneAssumption DEF Inv, NewRecord
  <1>1. TypeOK'
    BY DEF TypeOK, Server, Page, Load, Call, Proof, Statuses, Faults, Verdicts, Records, Unanchored
  <1>2. RequestsApart'
    BY DEF TypeOK, Page, Load, Call, RequestsApart, Unanchored
  <1>3. SelectionFresh'
    BY DEF TypeOK, Page, Load, Call, RequestsApart, SelectionFresh, Unanchored
  <1>4. CallCoherent'
    BY DEF TypeOK, Server, Page, Call, RequestsApart, SelectionFresh, CallCoherent, Unanchored
  <1>5. AnswersTrue'
    BY DEF TypeOK, Server, Page, Load, Proof, CallCoherent, AnswersTrue
  <1>6. OneUncrossed'
    BY DEF TypeOK, Proof, OneUncrossed, InFlight
  <1>. QED
    BY <1>1, <1>2, <1>3, <1>4, <1>5, <1>6

LEMMA AnchorElsewhereInv == ASSUME Inv, AnchorElsewhere PROVE Inv'
  <1> USE PageAssumption, NoneAssumption DEF Inv, AnchorElsewhere
  <1>1. TypeOK'
    <2>1. server' \in Server
      <3>1. PICK B \in SUBSET (1 .. server.created) :
              server' = [server EXCEPT !.anchored = @ \cup B, !.ledger = @ \cup B]
        OBVIOUS
      <3>2. B \subseteq Records
        BY DEF TypeOK, Server, Records
      <3>. QED
        BY <3>1, <3>2 DEF TypeOK, Server
    <2>2. page' \in Page
      BY DEF TypeOK, Page, Load, Call, Proof, Statuses, Faults, Verdicts
    <2>3. load' \in Load
      BY DEF TypeOK, Load, Server, Records
    <2>4. call' \in Call
      BY DEF TypeOK, Call, Statuses
    <2>5. proofs' \in [Fetches -> Proof]
      BY DEF TypeOK, Proof
    <2>. QED
      BY <2>1, <2>2, <2>3, <2>4, <2>5 DEF TypeOK
  <1>2. RequestsApart'
    BY DEF TypeOK, Page, Load, Call, RequestsApart, Unanchored
  <1>3. SelectionFresh'
    BY DEF TypeOK, Page, Load, Call, RequestsApart, SelectionFresh, Unanchored
  <1>4. CallCoherent'
    BY DEF TypeOK, Server, Page, Call, RequestsApart, SelectionFresh, CallCoherent, Unanchored
  <1>5. AnswersTrue'
    BY DEF TypeOK, Server, Page, Load, Proof, CallCoherent, AnswersTrue
  <1>6. OneUncrossed'
    BY DEF TypeOK, Proof, OneUncrossed, InFlight
  <1>. QED
    BY <1>1, <1>2, <1>3, <1>4, <1>5, <1>6

LEMMA RemountInv == ASSUME Inv, Remount PROVE Inv'
  <1> USE PageAssumption, NoneAssumption DEF Inv, Remount, FreshPage, SentLoad, NoCall, NoProof
  <1>1. TypeOK'
    <2>1. server' \in Server
      BY DEF TypeOK, Server, Call, Records
    <2>2. page' \in Page
      BY DEF TypeOK, Page, Load, Call, Proof, Statuses, Faults, Verdicts
    <2>3. load' \in Load
      BY DEF TypeOK, Load, Server, Records
    <2>4. call' \in Call
      BY DEF TypeOK, Call, Statuses
    <2>5. proofs' \in [Fetches -> Proof]
      BY DEF TypeOK, Proof
    <2>6. visits' \in 0 .. MaxVisits
      BY DEF TypeOK
    <2>7. crossed' \in BOOLEAN
      OBVIOUS
    <2>. QED
      BY <2>6, <2>7, <2>1, <2>2, <2>3, <2>4, <2>5 DEF TypeOK
  <1>2. RequestsApart'
    BY DEF TypeOK, Page, Load, Call, RequestsApart, Unanchored
  <1>3. SelectionFresh'
    BY DEF TypeOK, Page, Load, Call, RequestsApart, SelectionFresh, Unanchored
  <1>4. CallCoherent'
    BY DEF TypeOK, Server, Page, Call, RequestsApart, SelectionFresh, CallCoherent, Unanchored
  <1>5. AnswersTrue'
    BY DEF TypeOK, Server, Page, Load, Proof, CallCoherent, AnswersTrue
  <1>6. OneUncrossed'
    BY DEF TypeOK, Proof, OneUncrossed, InFlight
  <1>. QED
    BY <1>1, <1>2, <1>3, <1>4, <1>5, <1>6

LEMMA NextInv == Inv /\ [Next]_vars => Inv'
  <1>. SUFFICES ASSUME Inv, [Next]_vars PROVE Inv'
    OBVIOUS
  <1>1. CASE ListRecords
    BY <1>1, ServeLoadInv, LoadFailsInv, DeliverMountInv, DeliverRefreshInv DEF ListRecords
  <1>2. CASE \E r \in Records : ToggleSelect(r)
    BY <1>2, ToggleSelectInv
  <1>3. CASE SelectAll \/ OnAnchor
    BY <1>3, SelectAllInv, OnAnchorInv
  <1>4. CASE ServeAnchor \/ DeliverAnchor
    BY <1>4, SelectBatchInv, SubmitBatchInv, SubmitFailsInv, CallFailsInv, DeliverResultInv,
       DeliverFaultInv DEF ServeAnchor, DeliverAnchor
  <1>5. CASE \E f \in Fetches : \E r \in Records : OnGenerateProof(f, r)
    BY <1>5, OnGenerateProofInv
  <1>6. CASE \E f \in Fetches : ServeProof(f) \/ DeliverProof(f)
    BY <1>6, ServeProofInv, DeliverProofInv
  <1>7. CASE NewRecord \/ AnchorElsewhere \/ Remount
    BY <1>7, NewRecordInv, AnchorElsewhereInv, RemountInv
  <1>8. CASE UNCHANGED vars
    BY <1>8 DEF vars, Inv, TypeOK, RequestsApart, SelectionFresh, CallCoherent, AnswersTrue,
                OneUncrossed, Unanchored, InFlight
  <1>. QED
    BY <1>1, <1>2, <1>3, <1>4, <1>5, <1>6, <1>7, <1>8 DEF Next

\* The page's requests stay apart and its selection fresh, whatever the user,
\* the server and other clients do between a request and its answer
\* (onAnchor, refreshRecords, onGenerateProof).
THEOREM Invariance == Spec => []Inv
  <1>. QED
    BY InitInv, NextInv, PTL DEF Spec

\* The variables keep their types.
THEOREM TypeCorrect == Spec => []TypeOK
  <1>1. Inv => TypeOK
    BY DEF Inv
  <1>. QED
    BY Invariance, <1>1, PTL

-----------------------------------------------------------------------------

LEMMA SameSizeSameSet ==
    ASSUME Inv, AllSelected
    PROVE  page.selected = Unanchored
  <1>1. IsFiniteSet(Records)
    BY PageAssumption, FS_Interval DEF Records
  <1>2. Unanchored \subseteq Records
    BY DEF Inv, TypeOK, Page, Unanchored
  <1>3. IsFiniteSet(Unanchored)
    BY <1>1, <1>2, FS_Subset
  <1>4. page.selected \subseteq Unanchored
    BY DEF Inv, SelectionFresh
  <1>. QED
    BY <1>3, <1>4, FS_Subset DEF AllSelected

\* "Clear selection" is offered only when every unanchored record is selected
\* (allSelected, for a listing of any length).
THEOREM AllSelectedIsAllAlways == Spec => []AllSelectedIsAll
  <1>1. Inv => AllSelectedIsAll
    BY SameSizeSameSet DEF AllSelectedIsAll
  <1>. QED
    BY Invariance, <1>1, PTL

-----------------------------------------------------------------------------
\* What the server holds as anchored only grows.
LEMMA ServerGrows ==
    ASSUME Inv, [Next]_vars
    PROVE  server.anchored \subseteq server'.anchored
  <1> USE DEF Inv, TypeOK, Server
  <1>1. CASE SubmitBatch \/ SubmitFails \/ NewRecord \/ AnchorElsewhere
    BY ZenonT(60), <1>1 DEF SubmitBatch, SubmitFails, NewRecord, AnchorElsewhere
  <1>2. CASE UNCHANGED server
    BY <1>2
  <1>3. CASE ListRecords
    BY <1>3, <1>2 DEF ListRecords, ServeLoad, LoadFails, DeliverMount, DeliverRefresh
  <1>4. CASE SelectBatch \/ CallFails \/ DeliverAnchor
    BY <1>4, <1>2 DEF SelectBatch, CallFails, DeliverAnchor, DeliverResult, DeliverFault
  <1>5. CASE SelectAll \/ OnAnchor \/ Remount \/ UNCHANGED vars
    BY <1>5, <1>2 DEF SelectAll, OnAnchor, Remount, vars
  <1>6. ASSUME NEW f \in Fetches, NEW r \in Records,
               \/ ToggleSelect(r) \/ OnGenerateProof(f, r) \/ ServeProof(f) \/ DeliverProof(f)
        PROVE  UNCHANGED server
    BY <1>6 DEF ToggleSelect, OnGenerateProof, ServeProof, DeliverProof
  <1>7. CASE \/ \E r \in Records : ToggleSelect(r)
             \/ \E f \in Fetches : \E r \in Records : OnGenerateProof(f, r)
             \/ \E f \in Fetches : ServeProof(f) \/ DeliverProof(f)
    <2>1. UNCHANGED server
      BY <1>7 DEF ToggleSelect, OnGenerateProof, ServeProof, DeliverProof
    <2>. QED
      BY <2>1
  <1>. QED
    BY <1>1, <1>3, <1>4, <1>5, <1>7 DEF Next, ServeAnchor

\* The actions that change the page, and those that leave it.
PageKept == UNCHANGED page

LEMMA PageSteps ==
    ASSUME Next
    PROVE  \/ PageKept
           \/ DeliverMount \/ DeliverRefresh
           \/ \E r \in Records : ToggleSelect(r)
           \/ SelectAll \/ OnAnchor \/ DeliverResult \/ DeliverFault
           \/ \E f \in Fetches : \E r \in Records : OnGenerateProof(f, r)
           \/ \E f \in Fetches : DeliverProof(f)
           \/ Remount
  <1>1. CASE ServeLoad \/ LoadFails \/ NewRecord \/ AnchorElsewhere
    BY <1>1 DEF ServeLoad, LoadFails, NewRecord, AnchorElsewhere, PageKept
  <1>2. CASE ServeAnchor
    BY <1>2 DEF ServeAnchor, SelectBatch, SubmitBatch, SubmitFails, CallFails, PageKept
  <1>3. ASSUME NEW f \in Fetches, ServeProof(f) PROVE PageKept
    BY <1>3 DEF ServeProof, PageKept
  <1>. QED
    BY <1>1, <1>2, <1>3 DEF Next, ListRecords, DeliverAnchor

LEMMA ShownStep ==
    ASSUME Inv, ShownIsAnchored, [Next]_vars
    PROVE  ShownIsAnchored'
  <1> USE NoneAssumption DEF ShownIsAnchored, ProofShown
  <1>1. server.anchored \subseteq server'.anchored
    BY ServerGrows
  <1>2. Inv'
    BY NextInv
  <1>3. server'.anchored \subseteq server'.ledger
    BY <1>2 DEF Inv, AnswersTrue
  <1>4. page \in Page /\ load.anchored \subseteq server.anchored
    BY DEF Inv, TypeOK, AnswersTrue
  <1>5. CASE PageKept \/ UNCHANGED vars
    BY <1>1, <1>3, <1>5 DEF PageKept, vars
  <1>6. CASE DeliverMount \/ DeliverRefresh
    <2>1. /\ page'.anchored = page.anchored \/ page'.anchored = load.anchored
          /\ page'.status = page.status /\ page'.batch = page.batch
          /\ page'.proof = page.proof
      BY ZenonT(60), <1>4, <1>6 DEF DeliverMount, DeliverRefresh, Listed, NotListed, Page
    <2>. QED
      BY <2>1, <1>1, <1>3, <1>4
  <1>7. ASSUME NEW r \in Records, ToggleSelect(r) PROVE ShownIsAnchored'
    BY <1>1, <1>3, <1>4, <1>7 DEF ToggleSelect, Page
  <1>8. CASE SelectAll \/ OnAnchor \/ DeliverFault
    BY ZenonT(60), <1>1, <1>3, <1>4, <1>8 DEF SelectAll, OnAnchor, DeliverFault, Page
  <1>9. CASE DeliverResult
    BY <1>1, <1>3, <1>4, <1>9 DEF DeliverResult, Inv, CallCoherent, Page
  <1>10. ASSUME NEW f \in Fetches, NEW r \in Records, OnGenerateProof(f, r)
         PROVE  ShownIsAnchored'
    BY <1>1, <1>3, <1>4, <1>10 DEF OnGenerateProof, Page
  <1>11. ASSUME NEW f \in Fetches, DeliverProof(f) PROVE ShownIsAnchored'
    BY ZenonT(60), <1>1, <1>3, <1>4, <1>11 DEF DeliverProof, Inv, AnswersTrue, Page
  <1>12. CASE Remount
    BY <1>12 DEF Remount, FreshPage
  <1>. QED
    BY <1>5, <1>6, <1>7, <1>8, <1>9, <1>10, <1>11, <1>12, PageSteps

\* What the page calls anchored is anchored and on the ledger, however old the
\* answer that says so (refreshRecords, onAnchor, onGenerateProof).
THEOREM ShownIsAnchoredAlways == Spec => []ShownIsAnchored
  <1>1. Init => ShownIsAnchored
    BY DEF Init, FreshPage, ShownIsAnchored, ProofShown
  <1>2. Inv /\ ShownIsAnchored /\ [Next]_vars => ShownIsAnchored'
    BY ShownStep
  <1>. QED
    BY Invariance, <1>1, <1>2, PTL DEF Spec

-----------------------------------------------------------------------------

LEMMA LeavesStep ==
    ASSUME Inv, LeavesAccounted, [Next]_vars
    PROVE  LeavesAccounted'
  <1> USE DEF LeavesAccounted, NothingReported, AnchoredReported, RecordIds, LeavesDrawn, Tree, ConfirmedShown
  <1>1. server.anchored \subseteq server'.anchored
    BY ServerGrows
  <1>2. page \in Page
    BY DEF Inv, TypeOK
  <1>3. CASE PageKept \/ UNCHANGED vars
    BY <1>1, <1>3 DEF PageKept, vars
  <1>4. CASE DeliverMount \/ DeliverRefresh
    <2>1. \/ page' = Listed \/ page' = NotListed
          \/ page' = [Listed EXCEPT !.selected = {}, !.running = FALSE]
          \/ page' = [NotListed EXCEPT !.selected = {}, !.running = FALSE]
      BY <1>4 DEF DeliverMount, DeliverRefresh
    <2>2. /\ page'.status = page.status
          /\ page'.batch = page.batch
          /\ page'.leaves = page.leaves
          /\ page'.fault = page.fault
      BY <1>2, <2>1 DEF Listed, NotListed, Page
    <2>. QED
      BY <1>1, <2>2
  <1>5. ASSUME NEW r \in Records, ToggleSelect(r) PROVE LeavesAccounted'
    BY <1>1, <1>2, <1>5 DEF ToggleSelect, Page
  <1>6. CASE SelectAll \/ OnAnchor \/ DeliverFault
    BY <1>1, <1>2, <1>6 DEF SelectAll, OnAnchor, DeliverFault, Page
  <1>7. CASE DeliverResult
    BY <1>1, <1>2, <1>7 DEF DeliverResult, Inv, CallCoherent, Page
  <1>8. ASSUME NEW f \in Fetches, NEW r \in Records, OnGenerateProof(f, r)
        PROVE  LeavesAccounted'
    BY <1>1, <1>2, <1>8 DEF OnGenerateProof, Page
  <1>9. ASSUME NEW f \in Fetches, DeliverProof(f) PROVE LeavesAccounted'
    BY <1>1, <1>2, <1>9 DEF DeliverProof, Page
  <1>10. CASE Remount
    BY <1>10 DEF Remount, FreshPage
  <1>. QED
    BY <1>3, <1>4, <1>5, <1>6, <1>7, <1>8, <1>9, <1>10, PageSteps

\* Every leaf drawn under a new root is in its batch or was anchored before, and so
\* are those of a run that found nothing to anchor
\* (MerkleTreeView, onAnchor).
THEOREM LeavesAccountedAlways == Spec => []LeavesAccounted
  <1>1. Init => LeavesAccounted
    BY DEF Init, FreshPage, LeavesAccounted, NothingReported
  <1>2. Inv /\ LeavesAccounted /\ [Next]_vars => LeavesAccounted'
    BY LeavesStep
  <1>. QED
    BY Invariance, <1>1, <1>2, PTL DEF Spec

-----------------------------------------------------------------------------

LEMMA HighlightKept ==
    ASSUME ProofOfHighlight, UNCHANGED <<proofs, crossed>>,
           UNCHANGED <<page.proof, page.proofId, page.proofLoading, page.proofError>>
    PROVE  ProofOfHighlight'
  BY DEF ProofOfHighlight, InFlight

LEMMA HighlightStep ==
    ASSUME Inv, ProofOfHighlight, [Next]_vars
    PROVE  ProofOfHighlight'
  <1>1. page \in Page /\ proofs \in [Fetches -> Proof]
    BY DEF Inv, TypeOK
  <1>2. CASE UNCHANGED vars
    BY <1>2, HighlightKept DEF vars
  <1>3. CASE ListRecords \/ SelectAll \/ OnAnchor
    BY <1>1, <1>3, HighlightKept DEF ListRecords, ServeLoad, LoadFails, DeliverMount,
       DeliverRefresh, Listed, NotListed, SelectAll, OnAnchor, Page
  <1>4. CASE ServeAnchor \/ DeliverAnchor
    BY <1>1, <1>4, HighlightKept DEF ServeAnchor, SelectBatch, SubmitBatch, SubmitFails,
       CallFails, DeliverAnchor, DeliverResult, DeliverFault, Page
  <1>5. ASSUME NEW r \in Records, ToggleSelect(r) PROVE ProofOfHighlight'
    BY <1>1, <1>5, HighlightKept DEF ToggleSelect, Page
  <1>6. CASE NewRecord \/ AnchorElsewhere
    BY <1>6, HighlightKept DEF NewRecord, AnchorElsewhere
  <1>7. CASE Remount
    BY <1>7 DEF Remount, FreshPage, NoProof, ProofOfHighlight, InFlight
  <1>8. ASSUME NEW f \in Fetches, NEW r \in Records, OnGenerateProof(f, r)
        PROVE  ProofOfHighlight'
    <2>1. InFlight' = InFlight \cup {f}
      BY <1>1, <1>8 DEF OnGenerateProof, InFlight, Proof
    <2>2. crossed' = (InFlight # {})
      BY <1>8 DEF OnGenerateProof
    <2>3. /\ page'.proof = None /\ page'.proofId = r
          /\ page'.proofLoading /\ ~page'.proofError
      BY <1>1, <1>8 DEF OnGenerateProof, Page
    <2>4. proofs'[f].of = r
      BY <1>1, <1>8 DEF OnGenerateProof
    <2>. QED
      BY <2>1, <2>2, <2>3, <2>4 DEF ProofOfHighlight
  <1>9. ASSUME NEW f \in Fetches, ServeProof(f) PROVE ProofOfHighlight'
    <2>1. \A g \in Fetches : proofs'[g].of = proofs[g].of
      BY <1>1, <1>9 DEF ServeProof, Proof
    <2>2. InFlight' = InFlight
      BY <1>1, <1>9 DEF ServeProof, InFlight, Proof
    <2>. QED
      BY <2>1, <2>2, <1>9 DEF ServeProof, ProofOfHighlight, InFlight
  <1>10. ASSUME NEW f \in Fetches, DeliverProof(f), ~crossed PROVE ProofOfHighlight'
    <2>1. f \in InFlight
      BY <1>10 DEF DeliverProof, InFlight
    <2>2. InFlight = {f}
      BY <2>1, <1>10 DEF Inv, OneUncrossed
    <2>3. InFlight' = {}
      BY <2>2, <1>1, <1>10 DEF DeliverProof, InFlight, NoProof
    <2>4. proofs[f].of = page.proofId /\ page.proof = None /\ ~page.proofError
      BY <2>1, <1>10, <1>1 DEF ProofOfHighlight, Page
    <2>5. /\ page'.proofId = page.proofId /\ ~page'.proofLoading
          /\ \/ page'.proof = page.proofId /\ ~page'.proofError
             \/ page'.proof = None
      BY <2>4, <1>1, <1>10 DEF DeliverProof, Page
    <2>. QED
      BY <2>3, <2>5 DEF ProofOfHighlight
  <1>11. ASSUME NEW f \in Fetches, DeliverProof(f), crossed PROVE ProofOfHighlight'
    BY <1>11 DEF DeliverProof, ProofOfHighlight
  <1>. QED
    BY <1>2, <1>3, <1>4, <1>5, <1>6, <1>7, <1>8, <1>9, <1>10, <1>11 DEF Next

\* Without a second request before the answer of the first, the proof shown is
\* that of the highlighted record (onGenerateProof).
THEOREM ProofOfHighlightAlways == Spec => []ProofOfHighlight
  <1>1. Init => ProofOfHighlight
    BY DEF Init, FreshPage, NoProof, ProofOfHighlight, InFlight
  <1>2. Inv /\ ProofOfHighlight /\ [Next]_vars => ProofOfHighlight'
    BY HighlightStep
  <1>. QED
    BY Invariance, <1>1, <1>2, PTL DEF Spec
=============================================================================
