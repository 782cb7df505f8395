---------------------------- MODULE AuthVariable ----------------------------
(***************************************************************************)
(* The authenticated variables of AndromedaPkg: AuthVariableLib            *)
(* (AuthVariableLib.c, AuthService.c) with the physical presence of        *)
(* PlatformSecureLib.c.  One variable stands for each kind: PK, KEK, db    *)
(* (db, dbx and dbt are alike) and priv, a variable of a private signer    *)
(* kept in "certdb".                                                       *)
(*                                                                         *)
(* A request is turned into the writes its handler makes, in order.  Each  *)
(* goes to the variable driver, which may refuse it (the rest is then not  *)
(* done), and power may be lost between any two.                           *)
(***************************************************************************)
EXTENDS Naturals, Sequences, Functions

CONSTANTS
  Keys,          \* certificates, which also stand for the entries of db
  NoKey,
  Times,         \* time stamps: 1..n
  Configs,       \* SecureBootEnabled of the boot configuration, per start
  Requests,      \* the requests that are made, out of AllRequests
  PcdRequireSelfSignedPk, PcdEnforceSelfsignedPk,
  PolicyEnabled, \* IsVariablePolicyEnabled ()
  MaxFaults,     \* bound: refused writes
  MaxCopies      \* bound: how often an entry is in a list that is asked for

VARIABLES
  nv,       \* the variables that survive
  vol,      \* the volatile ones, mPlatformMode and mVendorKeyState
  phase,    \* "init", "boot", "runtime", or "dead" when Init failed
  todo,     \* the writes still to make
  req, path,
  buffer,   \* the request as the caller's buffer holds it once ProcessVarWithPk is done
  buttons,  \* PlatformSecureLib: the button driver is absent or ready, KeyNotify is
            \* registered with it ("bound"), or has been called ("pressed")
  faults,
  cfg,      \* the boot configuration of this start
  failed,   \* history: a write was refused since the start
  signed,   \* history: the request was taken because of its signature
  before    \* history: how often each entry was in the variable when it was made

reqVars == <<req, path, buffer, signed, before>>
vars == <<nv, vol, phase, todo, reqVars, buttons, faults, cfg, failed>>

None == 0
SETUP_MODE == "setup"
USER_MODE  == "user"
Absent     == 2

\* payload[k]: how often the payload lists k, in an order that is left open.
\* fits: GetScratchBuffer has room for it.
Request == [var : {"PK", "KEK", "db", "priv"}, payload : [Keys -> Nat], append : BOOLEAN,
            ts : Times, signer : Keys \cup {NoKey}, wellFormed : BOOLEAN, fits : BOOLEAN]
Nothing == [k \in Keys |-> 0]
Listed(r) == {k \in Keys : r.payload[k] > 0}
\* PK is not appended to, and an append has a payload.
AllRequests == {r \in Request : r.append => Listed(r) # {} /\ r.var # "PK"}
NoReq == [var |-> "PK", payload |-> Nothing, append |-> FALSE, ts |-> None,
          signer |-> NoKey, wellFormed |-> FALSE, fits |-> FALSE]

\* sigs[k]: how often k is in the list.  A variable with an empty list is absent.
Empty  == [sigs |-> Nothing, ts |-> None]
List   == [sigs : [Keys -> Nat], ts : Times \cup {None}]
Exists(v) == \E k \in Keys : v.sigs[k] > 0
Has(v) == {k \in Keys : v.sigs[k] > 0}
Lists  == {"PK", "KEK", "db", "priv"}

ASSUME AuthVariableAssumption ==
  /\ NoKey \notin Keys /\ Times \subseteq Nat \ {None}
  /\ Configs \subseteq {0, 1, Absent} /\ Requests \subseteq AllRequests
  /\ {PcdRequireSelfSignedPk, PcdEnforceSelfsignedPk, PolicyEnabled} \subseteq BOOLEAN
  /\ MaxFaults \in Nat /\ MaxCopies \in Nat

-----------------------------------------------------------------------------
\* UserPhysicalPresent: a user is taken to be present until the button driver
\* is there; then one has to press a key.
UserPhysicalPresent == buttons \in {"absent", "pressed"}
\* CustomMode is a boot-time variable.
InCustomMode == phase # "runtime" /\ nv.CustomMode = 1

\* The first call after the button driver came registers KeyNotify.
AskPresence(asked) ==
  buttons' = IF asked /\ buttons = "ready" THEN "bound" ELSE buttons

Item(v, x) == <<[v |-> v, x |-> x]>>
InMemory == {"mPlatformMode", "mVendorKeyState"}   \* assignments: never refused

(***************************************************************************)
(* The variable driver (external): an empty payload deletes, an append     *)
(* adds and keeps the later time stamp.                                    *)
(***************************************************************************)
Later(t, u) == IF t < u THEN u ELSE t

\* Variant: the entries that are there already are appended once more.
FilteredNot(old, r) == r.payload

\* FilterSignatureList, called by AuthServiceInternalUpdateVariableWithTimeStamp
\* when KEK or db is appended to.  Entries are compared with those of the variable,
\* not with each other; without a scratch buffer all are appended.
Filtered(old, r) ==
  [k \in Keys |-> IF r.append /\ r.var # "priv" /\ r.fits /\ k \in Has(old)
                  THEN 0 ELSE r.payload[k]]

\* What FilterSignatureList leaves in the caller's buffer: the filtered list is
\* copied over its start, the size known to the caller stays, so the end is as it
\* was, as many entries as were filtered out (which ones depends on the order).  A
\* changed buffer no longer has its signature, and where entries differ in size the
\* seam may leave it ill-formed.
Rewritten(old, r) ==
  LET kept  == Filtered(old, r)
      gone  == SumFunction(r.payload) - SumFunction(kept)
      tails == {t \in [Keys -> 0..gone] :
                  SumFunction(t) = gone /\ \A k \in Keys : t[k] <= r.payload[k]}
  IN UNION {LET p == [k \in Keys |-> kept[k] + t[k]] IN
            IF p = r.payload THEN {r}
            ELSE {[r EXCEPT !.payload = p, !.signer = NoKey, !.wellFormed = w] :
                    w \in {FALSE, r.wellFormed}} : t \in tails}

Updated(old, r) ==
  IF r.append
  THEN [sigs |-> [k \in Keys |-> old.sigs[k] + Filtered(old, r)[k]], ts |-> Later(old.ts, r.ts)]
  ELSE IF Listed(r) = {} THEN Empty ELSE [sigs |-> r.payload, ts |-> r.ts]

Write(r) == Item(r.var, Updated(nv[r.var], r))

\* CheckSignatureListFormat: PK is one certificate.
CheckSignatureListFormat(r) ==
  \/ Listed(r) = {} \/ r.var = "priv"
  \/ r.wellFormed /\ (r.var = "PK" => \A k, l \in Listed(r) : k = l /\ r.payload[k] = 1)

\* Deleting what does not exist is refused.
Writable(r) == Exists(nv[r.var]) \/ Listed(r) # {}

\* Variant: SecureBoot does not follow the mode.
UpdatePlatformModeOnly(mode) == Item("mPlatformMode", mode)

\* UpdatePlatformMode.  SecureBoot stays as it is once the OS runs.
UpdatePlatformMode(mode) ==
  Item("mPlatformMode", mode)
  \o IF phase = "runtime" THEN <<>>
     ELSE Item("SecureBoot", IF mode = USER_MODE THEN 1 ELSE 0)
          \o IF mode = USER_MODE THEN Item("SecureBootEnable", 1)
             ELSE IF nv.SecureBootEnable = Absent THEN <<>>
             ELSE Item("SecureBootEnable", Absent)

\* VendorKeyIsModified: mVendorKeyState first, then the two variables.
VendorKeyIsModified ==
  IF vol.mVendorKeyState = "modified" THEN <<>>
  ELSE Item("mVendorKeyState", "modified") \o Item("VendorKeysNv", "modified")
       \o Item("VendorKeys", "modified")

-----------------------------------------------------------------------------
(***************************************************************************)
(* VerifyTimeBasedPayload.  The signature covers the whole request, so all *)
(* that matters is whose it is.                                            *)
(***************************************************************************)
\* Variant: a request with the time stamp of the variable is taken.
FreshOrSame(old, r) == r.append \/ ~Exists(old) \/ r.ts >= old.ts

\* AuthServiceInternalCompareTimeStamp: not later is refused.
Fresh(old, r) == r.append \/ ~Exists(old) \/ r.ts > old.ts

Trusted(r, type) ==
  CASE type = "Pk"   -> r.signer \in Has(nv.PK)
    [] type = "Kek"  -> r.signer \in Has(nv.KEK)
    [] type = "Priv" -> r.signer # NoKey /\ (Exists(nv.priv) => r.signer = nv.certdb)
    [] type = "Payload" -> r.signer \in Listed(r)

\* A new private variable needs a place in certdb that is free.
CertFree(r, type) ==
  type = "Priv" /\ ~Exists(nv.priv) /\ Listed(r) # {} => nv.certdb = NoKey

\* With the variable policy off any deletion is taken for signed.
Unsigned(r) == Listed(r) = {} /\ ~r.append /\ ~PolicyEnabled

Verified(r, type) ==
  /\ phase # "runtime"
  /\ Fresh(nv[r.var], r)
  /\ Unsigned(r) \/ (Trusted(r, type) /\ CertFree(r, type))
  /\ CheckSignatureListFormat(r)
  /\ Writable(r)

Deletes(r) == Exists(nv[r.var]) /\ Listed(r) = {} /\ ~r.append

\* Variant: the variable is written before its signer.
InsertCertsLast(r) == Write(r) \o Item("certdb", r.signer)

\* InsertCertsToDb, then the variable.
InsertCertsFirst(r) == Item("certdb", r.signer) \o Write(r)

\* VerifyTimeBasedPayloadAndUpdate: the signer of a private variable is
\* inserted before the variable and deleted after it.
VerifiedWrites(r, type) ==
  IF type # "Priv" THEN Write(r)
  ELSE IF Deletes(r) THEN Write(r) \o Item("certdb", NoKey)
  ELSE IF ~Exists(nv.priv) THEN InsertCertsFirst(r) ELSE Write(r)

-----------------------------------------------------------------------------
(***************************************************************************)
(* ProcessVarWithPk, ProcessVarWithKek and ProcessVariable: whether a      *)
(* request is accepted, and what it writes.                                *)
(***************************************************************************)
Bypass(r) ==
  \/ (InCustomMode /\ UserPhysicalPresent) \/ ~PolicyEnabled
  \/ vol.mPlatformMode = SETUP_MODE /\ ~(PcdRequireSelfSignedPk /\ r.var = "PK")
UnsignedPk(r) ==
  /\ ~PcdEnforceSelfsignedPk /\ vol.mPlatformMode = SETUP_MODE /\ r.var = "PK"

PkAccepts(r) ==
  IF Bypass(r) THEN CheckSignatureListFormat(r) /\ Writable(r)
  ELSE IF vol.mPlatformMode = USER_MODE THEN Verified(r, "Pk")
  ELSE IF UnsignedPk(r) THEN Writable(r) ELSE Verified(r, "Payload")

\* Variant: the mode does not follow a deletion of PK.
ModeChangeEnrol(r) ==
  IF r.var = "PK" /\ vol.mPlatformMode = SETUP_MODE /\ Listed(r) # {}
  THEN UpdatePlatformMode(USER_MODE) ELSE <<>>

ModeChange(r) ==
  IF r.var # "PK" THEN <<>>
  ELSE IF vol.mPlatformMode = SETUP_MODE /\ Listed(r) # {} THEN UpdatePlatformMode(USER_MODE)
  ELSE IF vol.mPlatformMode = USER_MODE /\ Listed(r) = {} THEN UpdatePlatformMode(SETUP_MODE)
  ELSE <<>>

PkWrites(r) ==
  Write(r)
  \o (IF Bypass(r) /\ (vol.mPlatformMode # SETUP_MODE
                       \/ (PcdRequireSelfSignedPk /\ r.var = "PK"))
      THEN VendorKeyIsModified ELSE <<>>)
  \o ModeChange(r)

KekNeedsAuth == vol.mPlatformMode = USER_MODE /\ ~(InCustomMode /\ UserPhysicalPresent)
KekAccepts(r) ==
  IF KekNeedsAuth THEN Verified(r, "Kek") ELSE CheckSignatureListFormat(r) /\ Writable(r)
KekWrites(r) ==
  Write(r) \o (IF ~KekNeedsAuth /\ vol.mPlatformMode # SETUP_MODE
               THEN VendorKeyIsModified ELSE <<>>)

\* A present user may delete a private variable without a signature.
PresentDelete(r) ==
  Exists(nv.priv) /\ Listed(r) = {} /\ ~r.append /\ (UserPhysicalPresent \/ ~PolicyEnabled)
PrivAccepts(r) == PresentDelete(r) \/ Verified(r, "Priv")
PrivWrites(r) ==
  IF PresentDelete(r) THEN Write(r) \o Item("certdb", NoKey) ELSE VerifiedWrites(r, "Priv")

Accepts(p, r) == CASE p = "pk" -> PkAccepts(r) [] p = "kek" -> KekAccepts(r)
                   [] p = "priv" -> PrivAccepts(r)
Writes(p, r)  == CASE p = "pk" -> PkWrites(r) [] p = "kek" -> KekWrites(r)
                   [] p = "priv" -> PrivWrites(r)

\* AuthVariableLibProcessVariable: a request for db is tried with PK, then KEK.
FirstPath(r) ==
  IF r.var = "priv" THEN "priv"
  ELSE IF r.var = "db" /\ ~PkAccepts(r) THEN "kek" ELSE "pk"

SignedPath(p, r) == CASE p = "pk" -> ~Bypass(r) /\ ~UnsignedPk(r)
                      [] p = "kek" -> KekNeedsAuth [] OTHER -> ~PresentDelete(r)

-----------------------------------------------------------------------------
(***************************************************************************)
(* AuthVariableLibInitialize.  CleanCertsFromDb deletes the signers of     *)
(* variables that do not exist.                                            *)
(***************************************************************************)
\* GetBootConfigSecureBootPolicy: anything but 0 enables.
InitMode(n, policy) ==
  Item("mPlatformMode", IF Exists(n.PK) THEN USER_MODE ELSE SETUP_MODE)
  \o (IF Exists(n.PK) /\ n.SecureBootEnable # policy
      THEN Item("SecureBootEnable", policy) ELSE <<>>)
  \o Item("SecureBoot", IF Exists(n.PK) THEN policy ELSE 0)
  \o Item("CustomMode", 0)

InitVendorKeys(n) ==
  IF n.VendorKeysNv = "absent"
  THEN Item("mVendorKeyState", "valid") \o Item("VendorKeysNv", "valid")
       \o Item("VendorKeys", "valid")
  ELSE Item("mVendorKeyState", n.VendorKeysNv) \o Item("VendorKeys", n.VendorKeysNv)

\* Variant: certdb is not looked at.
CleanCertsFromDbNot(n) == n.certdb

CleanCertsFromDb(n) == IF Exists(n.priv) THEN n.certdb ELSE NoKey

InitWrites(n, c) ==
  InitMode(n, IF c = 0 THEN 0 ELSE 1)
  \o (IF CleanCertsFromDb(n) # n.certdb THEN Item("certdb", CleanCertsFromDb(n)) ELSE <<>>)
  \o InitVendorKeys(n)

Blank == [PK |-> Empty, KEK |-> Empty, db |-> Empty, priv |-> Empty, certdb |-> NoKey,
          SecureBootEnable |-> Absent, CustomMode |-> 0, VendorKeysNv |-> "absent"]
Started == [mPlatformMode |-> SETUP_MODE, SecureBoot |-> 0, VendorKeys |-> "valid",
            mVendorKeyState |-> "valid"]

NoRequest ==
  /\ req' = NoReq /\ path' = "pk" /\ buffer' = NoReq
  /\ signed' = FALSE /\ before' = Nothing

Start(n) ==
  /\ \E c \in Configs : cfg' = c /\ todo' = InitWrites(n, c)
  /\ phase' = "init" /\ vol' = Started /\ NoRequest
  /\ buttons' = "absent" /\ failed' = FALSE

Init ==
  /\ nv = Blank /\ vol = Started /\ phase = "init" /\ req = NoReq /\ path = "pk"
  /\ buffer = NoReq /\ signed = FALSE /\ before = Nothing
  /\ cfg \in Configs /\ todo = InitWrites(Blank, cfg)
  /\ buttons = "absent" /\ faults = 0 /\ failed = FALSE

Reset ==
  /\ Start(nv) /\ UNCHANGED <<nv, faults>>

-----------------------------------------------------------------------------
Idle == phase \in {"boot", "runtime"} /\ todo = <<>>

\* UserPhysicalPresent is called.  While the buttons are not bound it calls boot
\* services, which are gone at run time: what that does is not modelled.
Asks(r) == IF r.var = "priv" THEN Deletes(r) ELSE InCustomMode

\* AuthVariableLibProcessVariable.
Submit(r) ==
  LET p == FirstPath(r) IN
  /\ Idle /\ \A k \in Keys : Updated(nv[r.var], r).sigs[k] <= MaxCopies
  /\ Asks(r) /\ phase = "runtime" => buttons \in {"bound", "pressed"}
  /\ AskPresence(Asks(r))
  /\ IF Accepts(p, r)
     THEN /\ todo' = Writes(p, r) /\ req' = r /\ path' = p
          /\ buffer' \in IF p = "pk" THEN Rewritten(nv[r.var], r) ELSE {r}
          /\ signed' = SignedPath(p, r) /\ before' = nv[r.var].sigs
     ELSE UNCHANGED <<todo, reqVars>>
  /\ UNCHANGED <<nv, vol, phase, faults, cfg, failed>>

\* CustomMode and SecureBootEnable are plain variables for a present user
\* (NeedPhysicallyPresent), and not there at run time.
SetMode(v, x) ==
  /\ phase = "boot" /\ todo = <<>>
  /\ AskPresence(PolicyEnabled)
  /\ IF PolicyEnabled => UserPhysicalPresent THEN todo' = Item(v, x) ELSE UNCHANGED todo
  /\ UNCHANGED <<nv, vol, phase, reqVars, faults, cfg, failed>>

\* One write is made.
Apply ==
  /\ todo # <<>> /\ todo' = Tail(todo)
  /\ LET i == Head(todo) IN
       IF i.v \in DOMAIN vol
       THEN vol' = [vol EXCEPT ![i.v] = i.x] /\ UNCHANGED nv
       ELSE nv' = [nv EXCEPT ![i.v] = i.x] /\ UNCHANGED vol
  /\ \/ Tail(todo) # <<>> /\ UNCHANGED <<phase, reqVars>>
     \/ /\ Tail(todo) = <<>> /\ NoRequest
        /\ phase' = IF phase = "init" THEN "boot" ELSE phase
  /\ UNCHANGED <<buttons, faults, cfg, failed>>

\* One write is refused.  CleanCertsFromDb tries again; any other ends Init, or
\* ends the request, which for db is then tried with KEK, from the buffer as
\* ProcessVarWithPk left it.
Refuse ==
  /\ todo # <<>> /\ Head(todo).v \notin InMemory
  /\ faults < MaxFaults /\ faults' = faults + 1
  /\ \/ /\ phase = "init" /\ Head(todo).v = "certdb"
        /\ UNCHANGED <<phase, todo, reqVars, failed>>
     \/ /\ phase = "init" /\ Head(todo).v # "certdb"
        /\ phase' = "dead" /\ todo' = <<>>
        /\ UNCHANGED <<reqVars, failed>>
     \/ /\ phase # "init" /\ failed' = TRUE /\ UNCHANGED phase
        /\ IF req.var = "db" /\ path = "pk" /\ KekAccepts(buffer)
           THEN /\ path' = "kek" /\ todo' = KekWrites(buffer)
                /\ signed' = SignedPath("kek", buffer) /\ UNCHANGED <<req, buffer, before>>
           ELSE todo' = <<>> /\ NoRequest
  /\ UNCHANGED <<nv, vol, buttons, cfg>>

ExitBootServices ==
  /\ phase = "boot" /\ todo = <<>> /\ phase' = "runtime"
  /\ UNCHANGED <<nv, vol, todo, reqVars, buttons, faults, cfg, failed>>

\* The button driver starts; a registered key is pressed (KeyNotify).
Buttons ==
  /\ phase = "boot" /\ todo = <<>>
  /\ \/ buttons = "absent" /\ buttons' = "ready"
     \/ buttons = "bound" /\ buttons' = "pressed"
  /\ UNCHANGED <<nv, vol, phase, todo, reqVars, faults, cfg, failed>>

Next ==
  \/ \E r \in Requests : Submit(r)
  \/ \E x \in 0..1 : SetMode("CustomMode", x) \/ SetMode("SecureBootEnable", x)
  \/ Apply \/ Refuse \/ ExitBootServices \/ Buttons \/ Reset

Spec == Init /\ [][Next]_vars

-----------------------------------------------------------------------------
TypeOK ==
  /\ \A v \in Lists : nv[v] \in List
  /\ nv.certdb \in Keys \cup {NoKey} /\ nv.SecureBootEnable \in {0, 1, Absent}
  /\ nv.CustomMode \in {0, 1} /\ nv.VendorKeysNv \in {"absent", "valid", "modified"}
  /\ vol.mPlatformMode \in {SETUP_MODE, USER_MODE} /\ vol.SecureBoot \in {0, 1}
  /\ {vol.VendorKeys, vol.mVendorKeyState} \subseteq {"valid", "modified"}
  /\ phase \in {"init", "boot", "runtime", "dead"}
  /\ req \in Requests \cup {NoReq} /\ path \in {"pk", "kek", "priv"}
  /\ buffer \in AllRequests \cup {NoReq} /\ before \in [Keys -> Nat]
  /\ buttons \in {"absent", "ready", "bound", "pressed"} /\ {failed, signed} \subseteq BOOLEAN
  /\ faults \in 0..MaxFaults /\ cfg \in Configs

\* The platform is in user mode exactly when there is a PK, whatever was enrolled,
\* replaced or deleted, by whichever path, and wherever power was lost; until a
\* write is refused (ProcessVarWithPk skips UpdatePlatformMode when
\* VendorKeyIsModified fails).
ModeMatchesPk ==
  Idle /\ ~failed => (vol.mPlatformMode = USER_MODE <=> Exists(nv.PK))

\* SecureBoot is on only with a PK, and is off with one only when the boot
\* configuration says so.
SecureBootMatches ==
  Idle /\ phase = "boot" /\ ~failed =>
    /\ vol.SecureBoot = 1 => Exists(nv.PK)
    /\ Exists(nv.PK) /\ cfg # 0 => vol.SecureBoot = 1

\* What the platform says of itself, the mode and whether images are verified,
\* follows from PK.
ModesMatch == ModeMatchesPk /\ SecureBootMatches

\* A private variable always has its signer in certdb, after a reset or a refused
\* write too: without it the variable could never be updated or deleted again.
SignerKnown == Exists(nv.priv) => nv.certdb # NoKey

\* A signer without a variable blocks the variable (InsertCertsToDb denies); there
\* is none between requests unless a write was refused since the start.
NoOrphanSigner == Idle /\ ~failed => (nv.certdb # NoKey => Exists(nv.priv))

\* certdb and the private variables stay together: two variables that are written
\* one after the other, with a refusal or a loss of power in between.
SignersMatch == SignerKnown /\ NoOrphanSigner

\* The last write of a request is made.
Succeeds == todo # <<>> /\ todo' = <<>> /\ phase # "init" /\ faults' = faults

\* The driver "shall not perform an append of EFI_SIGNATURE_DATA values that are
\* already part of the existing variable value" (AuthService.c:297): an append to
\* KEK or db leaves what was there as often as it was, also when the request is
\* applied a second time, by the KEK path and from the buffer that FilterSignatureList
\* rewrote, after the PK path failed half-way.  A new entry comes in at most as often
\* as the payload lists it (as the rewritten buffer lists it, after a second try),
\* and once the request succeeds no listed entry is missing.
AppendsOnce ==
  [][req.append /\ req.fits /\ req.var \in {"KEK", "db"} =>
       \A k \in Keys :
         LET now == nv'[req.var].sigs[k] IN
         IF before[k] > 0 THEN now = before[k]
         ELSE /\ now <= IF path = "pk" THEN req.payload[k] ELSE buffer.payload[k]
              /\ Succeeds => (now > 0 <=> k \in Listed(req))]_vars

\* While a variable exists, a request taken for its signature that replaces or
\* deletes it has a later time stamp than it (a replay of an old one, by either path,
\* has no effect), and an append, which may be of any age, takes nothing away and
\* does not set the time stamp back.  A deleted variable has no time stamp: what
\* creates it again may be of any age.
TimeForward ==
  [][\A v \in Lists :
       (signed /\ Exists(nv[v]) /\ nv'[v] # nv[v]) =>
         IF req.append
         THEN nv'[v].ts >= nv[v].ts /\ \A k \in Keys : nv'[v].sigs[k] >= nv[v].sigs[k]
         ELSE req.ts > nv[v].ts /\ (Exists(nv'[v]) => nv'[v].ts = req.ts)]_vars

\* What VendorKeyIsModified says ("Update "VendorKeys" variable to record the out
\* of band secure boot key modification"): a request for KEK or db that succeeds
\* without authentication in user mode leaves the modification recorded.
ModificationRecorded ==
  [][(Succeeds /\ req.var \in {"KEK", "db"} /\ ~signed /\ vol.mPlatformMode = USER_MODE)
     => nv'.VendorKeysNv = "modified"]_vars
=============================================================================
