------------------------ MODULE ClientSettingsProofs ------------------------
(* What the client's settings keep, whatever the user chooses, the file    *)
(* holds, fails or loses, for every width of the numbers.                  *)
EXTENDS ClientSettings, CertificatesDialogProofs

Phases == {"off", "writing default", "asking", "writing", "applying", "running"}

\* What is on the disk: a first file, what an interrupted save leaves, or
\* settings that were saved.  What the next run makes of it was asked for.
DiskInv ==
    /\ \/ disk \in Files \/ disk = Unreadable
       \/ \E c \in Settings : disk = Object(ToJson(c))
    /\ Loads(disk) => FromJson(disk.json) \in Asked

\* Where the settings asked for last are, as long as the file does not fail.
LastInv ==
    /\ phase \in {"off", "writing default"} => config = Default
    /\ phase # "off" /\ ~lost => config = last
    /\ phase \notin {"writing default", "writing"} /\ ~lost => FirstSettings(disk) = last

PresenterInv ==
    /\ presenter \in {NoPresenter} \cup
          [mode : {"Tcp", "Ssl"}, port : 0 .. PortBound - 1, broadcast : BOOLEAN]
    /\ presenter = NoPresenter => ~m_ssl /\ ~open
    /\ phase = "running" => /\ presenter = PresenterFor(config)
                            /\ m_ssl = (config.mode = "Ssl")

IInv == /\ DialogInv
        /\ phase \in Phases /\ lost \in BOOLEAN /\ first \in Settings
        /\ config \in Asked /\ last \in Asked
        /\ DiskInv /\ LastInv /\ PresenterInv

----------------------------------------------------------------------------
(* The conversions.                                                        *)

\* The int that is saved for a limit is read back as that limit.
LEMMA SignedInt ==
    ASSUME NEW u \in 0 .. CharBound - 1
    PROVE  /\ Signed(u) \in Int /\ Signed(u) >= -Half /\ Signed(u) < Half
           /\ Unsigned(Signed(u)) = u
<1>1. Half \in Nat /\ CharBound = Half + Half
  BY SettingsAssumption DEF Half
<1> QED
  BY <1>1 DEF Signed, Unsigned

\* The value of a single element.
LEMMA OneValue == ASSUME NEW v, NEW other PROVE ValueIn({v}, other) = v
BY DEF ValueIn

\* toInt() yields an int.
LEMMA IntRange ==
    ASSUME NEW S, S \subseteq Int
    PROVE  ToInt(S) \in Int /\ ToInt(S) >= -Half /\ ToInt(S) < Half
<1>1. Half \in Nat \ {0}
  BY SettingsAssumption DEF Half
<1>2. ValueIn(S, 0) \in Int
  <2>1. CASE S = {}
    BY <2>1 DEF ValueIn
  <2>2. CASE S # {}
    <3>1. (CHOOSE v \in S : TRUE) \in S
      BY <2>2
    <3> QED
      BY <2>2, <3>1 DEF ValueIn
  <2> QED
    BY <2>1, <2>2
<1> QED
  BY <1>1, <1>2 DEF ToInt

\* What is saved is read back as it was.
LEMMA RoundTrip == ASSUME NEW c \in Settings PROVE FromJson(ToJson(c)) = c
<1>1. c.port \in 0 .. PortBound - 1 /\ c.max_char \in 0 .. CharBound - 1
      /\ c.mode \in {"Tcp", "Ssl"}
  BY DEF Settings
<1>2. Half \in Nat /\ CharBound = Half + Half /\ PortBound \in Nat \ {0} /\ PortBound <= Half
  BY SettingsAssumption DEF Half
<1>3. ToInt({c.port}) = c.port
  <2>1. ValueIn({c.port}, 0) = c.port
    BY OneValue
  <2> QED
    BY <1>1, <1>2, <2>1 DEF ToInt
<1>4. c.port % PortBound = c.port
  BY <1>1, <1>2
<1>5. ToInt({Signed(c.max_char)}) = Signed(c.max_char)
  BY <1>1, SignedInt, OneValue DEF ToInt
<1>6. Unsigned(ToInt({Signed(c.max_char)})) = c.max_char
  BY <1>1, <1>5, SignedInt
<1>7. ModeOf(ModeText(c.mode)) = c.mode
  BY <1>1 DEF ModeOf, ModeText
<1>8. FromJson(ToJson(c)) =
        [mode |-> c.mode, port |-> c.port, max_char |-> c.max_char,
         broadcast |-> c.broadcast, login |-> c.login, certs_dir |-> c.certs_dir]
  BY <1>3, <1>4, <1>6, <1>7, OneValue DEF FromJson, ToJson
<1> QED
  BY <1>8 DEF Settings

\* What the window takes from a first file has the right types.
LEMMA FileTyped ==
    ASSUME NEW file \in Files
    PROVE  FromJson(file.json) \in
             [mode : {"Tcp", "Ssl"}, port : 0 .. PortBound - 1,
              max_char : 0 .. CharBound - 1, broadcast : BOOLEAN,
              login : {FromJson(file.json).login},
              certs_dir : {FromJson(file.json).certs_dir}]
<1>1. file.json.port \subseteq Int /\ file.json.max_char \subseteq Int
      /\ file.json.broadcast \subseteq BOOLEAN
  BY SettingsAssumption
<1>2. Half \in Nat /\ CharBound = Half + Half /\ PortBound \in Nat \ {0}
  BY SettingsAssumption DEF Half
<1>3. ToInt(file.json.port) % PortBound \in 0 .. PortBound - 1
  BY <1>1, <1>2, IntRange
<1>4. Unsigned(ToInt(file.json.max_char)) \in 0 .. CharBound - 1
  BY <1>1, <1>2, IntRange DEF Unsigned
<1>5. ValueIn(file.json.broadcast, FALSE) \in BOOLEAN
  BY <1>1 DEF ValueIn
<1>6. ModeOf(ValueIn(file.json.mode, "")) \in {"Tcp", "Ssl"}
  BY DEF ModeOf
<1> QED
  BY <1>3, <1>4, <1>5, <1>6 DEF FromJson

\* What a user may leave in the dialog are settings.
LEMMA ChosenTyped ==
    ASSUME NEW d \in Choices, NEW dir \in CertsDirs
    PROVE  Chosen(d, dir) \in Settings
<1>1. /\ d.mode \in {"Tcp", "Ssl"} /\ d.broadcast \in BOOLEAN
      /\ d.port \subseteq Nat /\ d.max_char \subseteq 0 .. CharBound - 1
      /\ CharBound \in Nat \ {0} /\ PortBound \in Nat \ {0}
  BY SettingsAssumption
<1>2. ValueIn(d.port, 0) \in Nat
  BY <1>1 DEF ValueIn
<1>3. ValueIn(d.port, 0) % PortBound \in 0 .. PortBound - 1
  BY <1>1, <1>2
<1>4. ValueIn(d.max_char, 0) \in 0 .. CharBound - 1
  BY <1>1 DEF ValueIn
<1>5. d.login \in Logins
  BY DEF Logins
<1> QED
  BY <1>1, <1>3, <1>4, <1>5 DEF Chosen, Settings

\* Settings that somebody asked for are settings.
LEMMA AskedTyped ==
    ASSUME first \in Settings
    PROVE  Asked \subseteq Settings
<1>1. Default \in Settings
  BY SettingsAssumption DEF Settings, Logins, CertsDirs
<1> QED
  BY <1>1, ChosenTyped DEF Asked

\* An untouched dialog changes nothing.
LEMMA UntouchedKeeps ==
    ASSUME NEW c \in Settings
    PROVE  Chosen(Shown(c), c.certs_dir) = c
<1>1. c.port \in 0 .. PortBound - 1 /\ PortBound \in Nat \ {0}
  BY SettingsAssumption DEF Settings
<1>2. c.port % PortBound = c.port
  BY <1>1
<1>3. Chosen(Shown(c), c.certs_dir) =
        [mode |-> c.mode, port |-> c.port, max_char |-> c.max_char,
         broadcast |-> c.broadcast, login |-> c.login, certs_dir |-> c.certs_dir]
  BY <1>2, OneValue DEF Chosen, Shown
<1> QED
  BY <1>3 DEF Settings

----------------------------------------------------------------------------
(* The steps.                                                              *)

\* What is asked for is fixed by the first settings.
LEMMA AskedFixed ==
    ASSUME first' = first
    PROVE  Asked' = Asked /\ Settings' = Settings /\ CertsDirs' = CertsDirs
BY DEF Asked, Settings, CertsDirs, Logins

\* Settings that were asked for have one of the two directories.
LEMMA AskedDirs ==
    ASSUME NEW c \in Asked
    PROVE  c.certs_dir \in CertsDirs
BY DEF Asked, CertsDirs, Chosen

\* The first settings hold the invariant.
LEMMA InitIInv == Init => IInv
<1> SUFFICES ASSUME Init PROVE IInv
  OBVIOUS
<1>1. DialogInv
  BY DialogInitInv DEF Init
<1>2. first \in Settings
  <2>1. CASE Loads(disk)
    <3>1. first = FromJson(disk.json)
      BY <2>1 DEF Init, FirstSettings
    <3>2. first \in
             [mode : {"Tcp", "Ssl"}, port : 0 .. PortBound - 1,
              max_char : 0 .. CharBound - 1, broadcast : BOOLEAN,
              login : {first.login}, certs_dir : {first.certs_dir}]
      BY <3>1, FileTyped DEF Init
    <3> QED
      BY <3>2 DEF Settings, Logins, CertsDirs
  <2>2. CASE ~Loads(disk)
    BY <2>2, SettingsAssumption DEF Init, FirstSettings, Settings, Logins, CertsDirs
  <2> QED
    BY <2>1, <2>2
<1>3. DiskInv
  BY DEF Init, DiskInv, FirstSettings, Asked
<1>4. LastInv
  BY DEF Init, LastInv, FirstSettings
<1>5. PresenterInv
  BY DEF Init, PresenterInv, DialogInit
<1>6. Default \in Asked /\ first \in Asked
  BY DEF Asked
<1> QED
  BY <1>1, <1>2, <1>3, <1>4, <1>5, <1>6 DEF Init, IInv, Phases

\* The bytes that are written are the window's settings.
LEMMA WritesKeeps == IInv /\ Writes => IInv'
<1> SUFFICES ASSUME IInv, Writes PROVE IInv'
  OBVIOUS
<1>1. Asked' = Asked /\ Settings' = Settings
  BY AskedFixed DEF Writes
<1>2. config \in Settings
  BY AskedTyped DEF IInv
<1>3. DialogInv'
  BY DialogNextInv DEF Writes, IInv
<1>4. CASE disk' = Object(ToJson(config)) /\ UNCHANGED lost
  <2>1. FromJson(disk'.json) = config /\ FirstSettings(disk') = config
    BY <1>2, <1>4, RoundTrip DEF Object, FirstSettings, Loads
  <2>2. DiskInv'
    BY <1>1, <1>2, <1>4, <2>1 DEF DiskInv, IInv, Writes
  <2>3. LastInv'
    BY <1>4, <2>1 DEF LastInv, IInv, Writes
  <2> QED
    BY <1>1, <1>3, <1>4, <2>2, <2>3 DEF IInv, Writes, PresenterInv, Phases, certVars, dialogVars
<1>5. CASE UNCHANGED disk /\ lost' = TRUE
  BY <1>1, <1>3, <1>5 DEF IInv, Writes, DiskInv, LastInv, PresenterInv, Phases, certVars, dialogVars
<1> QED
  BY <1>4, <1>5 DEF Writes

\* A window that is constructed takes what was asked for last.
LEMMA StartsKeeps == IInv /\ (Starts \/ StartsWithout \/ StartsUnread) => IInv'
<1> SUFFICES ASSUME IInv, Starts \/ StartsWithout \/ StartsUnread PROVE IInv'
  OBVIOUS
<1>1. Asked' = Asked /\ Settings' = Settings
  BY AskedFixed DEF Starts, StartsWithout, StartsUnread
<1>2. DialogInv' /\ UNCHANGED <<m_ssl, open>>
  BY DialogNextInv DEF Starts, StartsWithout, StartsUnread, IInv, certVars, dialogVars
<1>3. ~Loads(Unreadable)
  BY DEF Loads, Unreadable
<1>4. Default \in Asked
  BY DEF Asked
<1>5. CASE Starts
  BY <1>1, <1>2, <1>5
     DEF Starts, IInv, DiskInv, LastInv, PresenterInv, FirstSettings, Phases
<1>6. CASE StartsWithout
  <2>1. DiskInv'
    BY <1>1, <1>3, <1>6 DEF StartsWithout, Saves, IInv, DiskInv
  <2>2. LastInv'
    <3>1. config = Default /\ (~lost => last = Default)
      BY <1>6 DEF StartsWithout, IInv, LastInv, FirstSettings
    <3>2. \/ phase' = "writing default" /\ lost' = lost
          \/ phase' = "asking" /\ lost' = TRUE
      BY <1>6 DEF StartsWithout, Saves
    <3>3. config' = config /\ last' = last
      BY <1>6 DEF StartsWithout
    <3> QED
      BY <3>1, <3>2, <3>3 DEF LastInv
  <2> QED
    BY <1>1, <1>2, <1>6, <2>1, <2>2
       DEF StartsWithout, Saves, IInv, PresenterInv, Phases
<1>7. CASE StartsUnread
  <2>1. DiskInv'
    BY <1>1, <1>3, <1>7 DEF StartsUnread, IInv, DiskInv
  <2>2. LastInv'
    BY <1>7 DEF StartsUnread, IInv, LastInv
  <2> QED
    BY <1>1, <1>2, <1>7, <2>1, <2>2 DEF StartsUnread, IInv, PresenterInv, Phases
<1> QED
  BY <1>5, <1>6, <1>7

\* Settings that are accepted were asked for, and are about to be saved.
LEMMA AcceptsKeeps ==
    ASSUME IInv, NEW d \in Choices \cup {Shown(config)}, AcceptsSettings(d)
    PROVE  IInv'
<1>1. Asked' = Asked /\ Settings' = Settings
  BY AskedFixed DEF AcceptsSettings
<1>2. DialogInv' /\ UNCHANGED <<m_ssl, open>>
  BY DialogNextInv DEF AcceptsSettings, IInv, certVars, dialogVars
<1>3. ~Loads(Unreadable)
  BY DEF Loads, Unreadable
<1>4. config' \in Asked /\ last' = config'
  <2>1. config \in Settings /\ config.certs_dir \in CertsDirs
    BY AskedTyped, AskedDirs DEF IInv
  <2>2. CASE d \in Choices
    BY <2>1, <2>2 DEF AcceptsSettings, Asked
  <2>3. CASE d = Shown(config)
    BY <2>1, <2>3, UntouchedKeeps DEF AcceptsSettings, IInv
  <2> QED
    BY <2>2, <2>3 DEF AcceptsSettings
<1>5. DiskInv'
  BY <1>1, <1>3 DEF AcceptsSettings, Saves, IInv, DiskInv
<1>6. phase' \in {"writing", "applying"} /\ lost' \in BOOLEAN
      /\ (phase' = "applying" => lost')
  BY DEF AcceptsSettings, Saves, IInv
<1>7. LastInv'
  BY <1>4, <1>6 DEF LastInv
<1>8. PresenterInv'
  BY <1>2, <1>6 DEF AcceptsSettings, IInv, PresenterInv
<1> QED
  BY <1>1, <1>2, <1>4, <1>5, <1>6, <1>7, <1>8 DEF AcceptsSettings, IInv, Phases

\* The presenter is made for the settings, and so is its TLS layer.
LEMMA SetsKeeps == IInv /\ SetsConnectionMode => IInv'
<1> SUFFICES ASSUME IInv, SetsConnectionMode PROVE IInv'
  OBVIOUS
<1>1. Asked' = Asked /\ Settings' = Settings
  BY AskedFixed DEF SetsConnectionMode
<1>2. DialogInv'
  BY DialogNextInv DEF SetsConnectionMode, IInv, DialogNext
<1>3. config \in Settings
  BY AskedTyped DEF IInv
<1>4. m_ssl' = (config'.mode = "Ssl")
  BY DEF SetsConnectionMode, EditsServer
<1>5. presenter' = PresenterFor(config') /\ presenter' # NoPresenter
      /\ presenter' \in [mode : {"Tcp", "Ssl"}, port : 0 .. PortBound - 1,
                         broadcast : BOOLEAN]
  BY <1>3 DEF SetsConnectionMode, PresenterFor, NoPresenter, Settings
<1>6. PresenterInv'
  BY <1>4, <1>5 DEF PresenterInv
<1>7. DiskInv' /\ LastInv'
  BY <1>1 DEF SetsConnectionMode, IInv, DiskInv, LastInv, Asking
<1> QED
  BY <1>1, <1>2, <1>6, <1>7 DEF SetsConnectionMode, IInv, Phases

\* The certificates dialog leaves the settings and the kind of layer alone.
LEMMA UsesKeeps == IInv /\ UsesCertificates => IInv'
<1> SUFFICES ASSUME IInv, UsesCertificates PROVE IInv'
  OBVIOUS
<1>1. Asked' = Asked /\ Settings' = Settings
  BY AskedFixed DEF UsesCertificates, settingsVars
<1>2. DialogInv'
  BY DialogNextInv DEF UsesCertificates, IInv, DialogNext
<1>3. UNCHANGED m_ssl
  BY DEF UsesCertificates, DialogStep, EditsCertificates, Chooses, ChoosesBadly,
         Accepts, Cancels, Closes
<1>4. presenter # NoPresenter
  <2>1. config \in Settings
    BY AskedTyped DEF IInv
  <2> QED
    BY <2>1 DEF UsesCertificates, IInv, PresenterInv, PresenterFor, NoPresenter, Settings
<1>5. PresenterInv'
  BY <1>3, <1>4 DEF UsesCertificates, settingsVars, IInv, PresenterInv
<1>6. DiskInv' /\ LastInv'
  BY <1>1 DEF UsesCertificates, settingsVars, IInv, DiskInv, LastInv
<1> QED
  BY <1>1, <1>2, <1>5, <1>6 DEF UsesCertificates, settingsVars, IInv

\* When the process ends, only the file remains.
LEMMA EndsKeeps == IInv /\ Ends => IInv'
<1> SUFFICES ASSUME IInv, Ends PROVE IInv'
  OBVIOUS
<1>1. Asked' = Asked /\ Settings' = Settings
  BY AskedFixed DEF Ends
<1>2. DialogInv'
  BY DialogInitInv DEF Ends, DialogInit, DialogInv, DialogTypeOK, Bundles, Complete,
       LayerAllOrNothing, Empty, Nothing
<1>3. Default \in Asked
  BY DEF Asked
<1>4. DiskInv'
  BY <1>1 DEF Ends, IInv, DiskInv
<1>5. LastInv'
  BY DEF Ends, IInv, LastInv
<1>6. PresenterInv'
  BY DEF Ends, PresenterInv
<1> QED
  BY <1>1, <1>2, <1>3, <1>4, <1>5, <1>6 DEF Ends, IInv, Phases

\* Every step keeps the invariant.
LEMMA NextIInv == IInv /\ [Next]_vars => IInv'
<1> SUFFICES ASSUME IInv, [Next]_vars PROVE IInv'
  OBVIOUS
<1>1. CASE UNCHANGED vars
  <2>1. Asked' = Asked /\ Settings' = Settings
    BY <1>1, AskedFixed DEF vars, settingsVars
  <2>2. DialogInv'
    BY <1>1, DialogNextInv DEF vars, IInv
  <2> QED
    BY <1>1, <2>1, <2>2
       DEF vars, settingsVars, certVars, dialogVars, IInv, DiskInv, LastInv, PresenterInv
<1> QED
  BY <1>1, StartsKeeps, WritesKeeps, AcceptsKeeps, SetsKeeps, UsesKeeps, EndsKeeps DEF Next

\* What is kept of the client's settings holds in every reachable state.
THEOREM Invariant == Spec => []IInv
BY InitIInv, NextIInv, PTL DEF Spec

\* Everything keeps its type, and so does what is on the disk: a file that was
\* saved is one that would be saved again.
THEOREM TypeCorrect == Spec => []TypeOK
<1>1. IInv => TypeOK
  <2> SUFFICES ASSUME IInv PROVE TypeOK
    OBVIOUS
  <2>1. config \in Settings /\ last \in Settings /\ first \in Settings
    BY AskedTyped DEF IInv
  <2>2. \/ disk \in Files \/ disk = Unreadable
        \/ disk = Object(ToJson(FromJson(disk.json)))
    BY RoundTrip DEF IInv, DiskInv, Object
  <2> QED
    BY <2>1, <2>2 DEF IInv, TypeOK, DialogInv, PresenterInv, Phases
<1> QED
  BY <1>1, Invariant, PTL

\* A window's settings were asked for together, whatever interrupted a save.
THEOREM Whole == Spec => []SettingsAreWhole
<1>1. IInv => SettingsAreWhole
  BY DEF IInv, SettingsAreWhole
<1> QED
  BY <1>1, Invariant, PTL

\* Settings persist unless the file fails, and the presenter is made for them.
THEOREM Persist == Spec => []SettingsPersist
<1>1. IInv => SettingsPersist
  BY DEF IInv, LastInv, PresenterInv, SettingsPersist
<1> QED
  BY <1>1, Invariant, PTL

\* The window never configures TLS with some of the parts only, whatever the
\* settings do around the dialog.
THEOREM WindowLayerComplete == Spec => []LayerAllOrNothing
<1>1. IInv => DialogInv
  BY DEF IInv
<1>2. DialogInv => LayerAllOrNothing
  BY DEF DialogInv
<1> QED
  BY <1>1, <1>2, Invariant, PTL
=============================================================================
