---------------------- MODULE CertificatesDialogProofs ----------------------
(* What the dialog and the window keep, for any usable items.              *)
EXTENDS CertificatesDialog, TLAPS

\* What a part's flag means, where the bundle is, and the property of the layer.
DialogInv ==
    /\ DialogTypeOK
    /\ \A p \in Parts : m_has[p] => m_security_bundle[p] # None
    /\ IF open THEN m_keys_and_certificates = Empty ELSE ~ok
    /\ LayerAllOrNothing

\* A bundle without a missing part is complete.
LEMMA CompleteIfAll ==
    ASSUME NEW b \in Bundles, \A p \in Parts : b[p] # None
    PROVE  b \in Complete
<1>1. \A p \in Parts : b[p] \in Items
  BY DEF Bundles
<1> QED
  BY <1>1 DEF Bundles, Complete

\* The dialog opens with OK enabled for a complete bundle only.
LEMMA OpensKeeps ==
    ASSUME DialogInv, Opens, ~open, m_ssl' \in BOOLEAN,
           layer' \in Bundles, layer' \in Complete \cup {Empty}
    PROVE  DialogInv'
<1>1. /\ m_security_bundle' \in Bundles /\ m_keys_and_certificates' = Empty
      /\ open' = TRUE
  BY DEF Opens, DialogInv, DialogTypeOK
<1>2. Empty \in Bundles
  BY DEF Empty, Bundles
<1>3. m_has' = [p \in Parts |-> m_security_bundle'[p] # None]
  BY DEF Opens
<1>4. m_has' \in [Parts -> BOOLEAN]
  BY <1>3
<1>5. ok' = (\A p \in Parts : m_has'[p])
  BY DEF Opens
<1>6. ASSUME ok' PROVE m_security_bundle' \in Complete
  BY <1>1, <1>3, <1>5, <1>6, CompleteIfAll
<1>7. ok' \in BOOLEAN
  BY <1>5
<1>8. \A p \in Parts : m_has'[p] => m_security_bundle'[p] # None
  BY <1>3
<1> QED
  BY <1>1, <1>2, <1>4, <1>6, <1>7, <1>8
     DEF DialogInv, DialogTypeOK, LayerAllOrNothing

\* What holds at the start.
LEMMA DialogInitInv == DialogInit => DialogInv
BY DEF DialogInit, DialogInv, DialogTypeOK, Empty, Nothing, Bundles, Complete, LayerAllOrNothing

\* Closing the dialog, with the window's bundle and the layer as they are after
\* it, keeps the invariant.
LEMMA ClosesKeeps ==
    ASSUME DialogInv, Closes,
           m_keys_and_certificates' \in Bundles, layer' \in Bundles,
           layer' \in Complete \cup {Empty},
           m_keys_and_certificates' \in {Empty, layer'}
    PROVE  DialogInv'
BY DEF Closes, DialogInv, DialogTypeOK, Empty, Nothing, Bundles, LayerAllOrNothing

\* Every step keeps the invariant.
LEMMA DialogNextInv == DialogInv /\ [DialogNext]_certVars => DialogInv'
<1> SUFFICES ASSUME DialogInv, [DialogNext]_certVars PROVE DialogInv'
  OBVIOUS
<1>0. Empty \in Bundles /\ Complete \subseteq Bundles
  BY DEF Empty, Bundles, Complete
<1>1. ASSUME NEW ssl \in BOOLEAN, EditsServer(ssl) PROVE DialogInv'
  <2>1. CASE ssl
    BY <1>0, <1>1, <2>1, OpensKeeps DEF EditsServer, Configures
  <2>2. CASE ~ssl
    BY <1>0, <1>1, <2>2 DEF EditsServer, Configures, dialogVars, DialogInv, DialogTypeOK, LayerAllOrNothing
  <2> QED
    BY <2>1, <2>2
<1>2. CASE EditsCertificates
  BY <1>2, OpensKeeps DEF EditsCertificates, DialogInv, DialogTypeOK, LayerAllOrNothing
<1>3. ASSUME NEW p \in Parts, NEW item \in Items, Chooses(p, item) PROVE DialogInv'
  <2>1. m_security_bundle' \in Bundles /\ m_has' \in [Parts -> BOOLEAN]
    BY <1>3 DEF Chooses, DialogInv, DialogTypeOK, Bundles
  <2>2. \A q \in Parts : m_has'[q] => m_security_bundle'[q] # None
    BY <1>3, ItemsAssumption DEF Chooses, DialogInv, DialogTypeOK, Bundles
  <2>3. ok' \in BOOLEAN /\ (ok' => \A q \in Parts : m_has'[q])
    BY <1>3 DEF Chooses
  <2>4. ok' => m_security_bundle' \in Complete
    BY <2>1, <2>2, <2>3, CompleteIfAll
  <2> QED
    BY <1>3, <2>1, <2>2, <2>3, <2>4 DEF Chooses, DialogInv, DialogTypeOK, LayerAllOrNothing
<1>4. ASSUME NEW p \in Parts, ChoosesBadly(p) PROVE DialogInv'
  BY <1>4 DEF ChoosesBadly, DialogInv, DialogTypeOK, LayerAllOrNothing
<1>5. CASE Accepts
  BY <1>0, <1>5, ClosesKeeps DEF Accepts, Configures, DialogInv, DialogTypeOK
<1>6. CASE Cancels
  BY <1>6, ClosesKeeps DEF Cancels, DialogInv, DialogTypeOK, LayerAllOrNothing
<1>7. CASE UNCHANGED certVars
  BY <1>7 DEF certVars, dialogVars, DialogInv, DialogTypeOK, LayerAllOrNothing
<1> QED
  BY <1>1, <1>2, <1>3, <1>4, <1>5, <1>6, <1>7 DEF DialogNext, DialogStep

\* The inductive invariant holds in every reachable state.
THEOREM DialogInvariant == DialogSpec => []DialogInv
BY DialogInitInv, DialogNextInv, PTL DEF DialogSpec

\* The window never configures TLS with some of the parts only.
THEOREM LayerComplete == DialogSpec => []LayerAllOrNothing
<1>1. DialogInv => LayerAllOrNothing
  BY DEF DialogInv
<1> QED
  BY <1>1, DialogInvariant, PTL
=============================================================================
