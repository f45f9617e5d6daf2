------------------------- MODULE CertificatesDialog -------------------------
(***************************************************************************)
(* The client's private key, its certificate and the root certificate it   *)
(* trusts: chosen one by one in a dialog, kept by the main window, used by *)
(* the TLS layer of the current presenter.  A part stands for the file it  *)
(* was read from and for what was read, which are set together.            *)
(***************************************************************************)
EXTENDS Naturals

CONSTANTS Items,      \* usable keys and certificates
          None        \* nothing chosen

ASSUME ItemsAssumption == None \notin Items

VARIABLES
    m_keys_and_certificates,   \* of the window: what was chosen for each part
    m_ssl,                     \* whether the presenter has a TLS layer
    layer,                     \* m_config of its SslClientModel
    open,                      \* whether the dialog is shown
    m_security_bundle,         \* of the dialog
    m_has,                     \* m_has_private, m_has_public, m_has_rootCA
    ok                         \* whether its OK button is enabled

dialogVars == <<open, m_security_bundle, m_has, ok>>
certVars == <<m_keys_and_certificates, m_ssl, layer, dialogVars>>

Parts == {"private_key", "public_key", "root_CA"}
Empty == [p \in Parts |-> None]
Nothing == [p \in Parts |-> FALSE]

DialogInit ==
    /\ m_keys_and_certificates = Empty
    /\ m_ssl = FALSE /\ layer = Empty
    /\ open = FALSE /\ m_security_bundle = Empty /\ m_has = Nothing /\ ok = FALSE

----------------------------------------------------------------------------
\* Mutant: the constructor leaves the button enabled, as the form does.
Opens_OkByDefault ==
    /\ open' = TRUE
    /\ m_security_bundle' = m_keys_and_certificates
    /\ m_keys_and_certificates' = Empty
    /\ m_has' = [p \in Parts |-> m_security_bundle'[p] # None]
    /\ ok' = TRUE

\* The bundle is moved into the dialog: the window keeps no path of it.
Opens ==
    /\ open' = TRUE
    /\ m_security_bundle' = m_keys_and_certificates
    /\ m_keys_and_certificates' = Empty
    /\ m_has' = [p \in Parts |-> m_security_bundle'[p] # None]
    /\ ok' = (\A p \in Parts : m_has'[p])

\* set_private_key(), set_public_key() and set_root_CA() of the model.
Configures(bundle) == layer' = bundle

\* The settings dialog, accepted or not: set_connection_mode() makes a new
\* presenter and model; for TLS it opens the certificates dialog at once.
EditsServer(ssl) ==
    /\ ~open
    /\ m_ssl' = ssl /\ Configures(Empty)
    /\ IF ssl THEN Opens ELSE UNCHANGED <<m_keys_and_certificates, dialogVars>>

EditsCertificates ==
    /\ ~open /\ m_ssl
    /\ Opens
    /\ UNCHANGED <<m_ssl, layer>>

\* A button of the dialog, when the file that is chosen is usable ...
Chooses(p, item) ==
    /\ open
    /\ m_has' = [m_has EXCEPT ![p] = TRUE]
    /\ m_security_bundle' = [m_security_bundle EXCEPT ![p] = item]
    /\ ok' = (\A q \in Parts : m_has'[q])
    /\ UNCHANGED <<m_keys_and_certificates, m_ssl, layer, open>>

\* Mutant: a file that is no good also clears what was chosen before.
ChoosesBadly_Clears(p) ==
    /\ open
    /\ m_has' = [m_has EXCEPT ![p] = FALSE]
    /\ m_security_bundle' = [m_security_bundle EXCEPT ![p] = None]
    /\ UNCHANGED <<m_keys_and_certificates, m_ssl, layer, open, ok>>

\* ... and when none is chosen, or one that cannot be read or is no key or
\* certificate: the part is marked missing, the button stays as it was.
ChoosesBadly(p) ==
    /\ open
    /\ m_has' = [m_has EXCEPT ![p] = FALSE]
    /\ UNCHANGED <<m_keys_and_certificates, m_ssl, layer, open,
                   m_security_bundle, ok>>

Closes ==
    /\ open' = FALSE
    /\ m_security_bundle' = Empty /\ m_has' = Nothing /\ ok' = FALSE
    /\ UNCHANGED m_ssl

Accepts ==
    /\ open /\ ok
    /\ m_keys_and_certificates' = m_security_bundle
    /\ Configures(m_security_bundle)
    /\ Closes

Cancels ==
    /\ open
    /\ Closes
    /\ UNCHANGED <<m_keys_and_certificates, layer>>

\* What the user does in the dialog, or to open it.
DialogStep == \/ EditsCertificates
              \/ \E p \in Parts : \/ \E item \in Items : Chooses(p, item)
                                  \/ ChoosesBadly(p)
              \/ Accepts \/ Cancels

DialogNext == DialogStep \/ \E ssl \in BOOLEAN : EditsServer(ssl)

DialogSpec == DialogInit /\ [][DialogNext]_certVars

----------------------------------------------------------------------------
(* Properties.                                                             *)

Bundles == [Parts -> Items \cup {None}]
Complete == [Parts -> Items]

\* Type invariant; the OK button is enabled for a complete bundle only.
DialogTypeOK ==
    /\ m_keys_and_certificates \in Bundles
    /\ m_ssl \in BOOLEAN
    /\ layer \in Bundles
    /\ open \in BOOLEAN
    /\ m_security_bundle \in Bundles
    /\ m_has \in [Parts -> BOOLEAN]
    /\ ok \in BOOLEAN /\ (ok => m_security_bundle \in Complete)

\* A TLS layer has all three parts or none, whatever was chosen, refused and
\* cancelled before, although the OK button outlives a refused choice; and what
\* the window will offer next time is what the layer has or nothing: a bundle
\* that was moved into a dialog and cancelled is forgotten, never mixed up with
\* the one in use.
LayerAllOrNothing ==
    /\ layer \in Complete \cup {Empty}
    /\ m_ssl /\ ~open => m_keys_and_certificates \in {Empty, layer}
=============================================================================
