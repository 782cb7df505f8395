------------------------- MODULE AuthVariableProofs -------------------------
(***************************************************************************)
(* Theorems about AuthVariable, for every set of keys, requests and        *)
(* starts: with writes refused and power lost between any two of them,     *)
(* appending to KEK or db never repeats an entry that was there, certdb    *)
(* stays with the private variables, the modes follow PK, and no signed    *)
(* request goes back in time.                                              *)
(*                                                                         *)
(* All follow from what the writes still to make can be.                   *)
(***************************************************************************)
EXTENDS AuthVariable, TLAPS

NvNames  == {"PK", "KEK", "db", "priv", "certdb", "SecureBootEnable", "CustomMode",
             "VendorKeysNv"}
VolNames == {"mPlatformMode", "SecureBoot", "VendorKeys", "mVendorKeyState"}
Names == NvNames \cup VolNames

\* What each variable may hold.
TypeOf(v) ==
  CASE v \in {"PK", "KEK", "db", "priv"} -> List
    [] v = "certdb" -> Keys \cup {NoKey}
    [] OTHER -> {0, 1, Absent, SETUP_MODE, USER_MODE, "absent", "valid", "modified"}

\* The writes there can be, those that are not of a private variable, and the
\* deletion of a signer.
Items == UNION {[v : {n}, x : TypeOf(n)] : n \in Names}
Apart == {it \in Items : it.v \notin {"priv", "certdb"}}
CertGone == [v |-> "certdb", x |-> NoKey]

Stored == DOMAIN nv = NvNames /\ DOMAIN vol = VolNames /\ \A v \in NvNames : nv[v] \in TypeOf(v)

\* The buffer holds the request, or what FilterSignatureList made of its payload.
Alike(b, r) ==
  /\ b.var = r.var /\ b.append = r.append /\ b.ts = r.ts /\ b.fits = r.fits
  /\ r # NoReq => b \in Request

StoreInv ==
  /\ Stored /\ todo \in Seq(Items) /\ req \in Requests \cup {NoReq}
  /\ Alike(buffer, req)

\* Where certdb and the private variable stand, by what is still to be written:
\* nothing of either; a signer to be cleaned up; a signer and then its variable;
\* a new value; or a deletion.
SignerInv ==
  \/ todo \in Seq(Apart) /\ SignerKnown
  \/ todo \in Seq(Apart \cup {CertGone}) /\ ~Exists(nv.priv)
  \/ /\ \E k \in Keys, y \in List :
          Exists(y) /\ todo = <<[v |-> "certdb", x |-> k], [v |-> "priv", x |-> y]>>
     /\ ~Exists(nv.priv)
  \/ /\ \E y \in List : Exists(y) /\ todo = <<[v |-> "priv", x |-> y]>>
     /\ nv.certdb # NoKey
  \/ todo = <<[v |-> "priv", x |-> Empty], CertGone>> /\ nv.certdb # NoKey

\* A signer without a variable is there only after a refusal, or while one of the
\* two is still to be written.
OrphanInv ==
  ~failed /\ phase # "dead" =>
    \/ nv.certdb # NoKey => Exists(nv.priv)
    \/ \E n \in 1..Len(todo) : todo[n].v \in {"certdb", "priv"}

AuthInv == StoreInv /\ SignerInv /\ OrphanInv

-----------------------------------------------------------------------------
LEMMA ItemFacts ==
  ASSUME NEW it \in Items
  PROVE  it.v \in Names /\ it.x \in TypeOf(it.v)
BY DEF Items

LEMMA ItemTyped ==
  ASSUME NEW v \in Names, NEW x \in TypeOf(v)
  PROVE  /\ [v |-> v, x |-> x] \in Items /\ Item(v, x) \in Seq(Items)
         /\ v \notin {"priv", "certdb"} => Item(v, x) \in Seq(Apart)
<1>1. [v |-> v, x |-> x] \in [v : {v}, x : TypeOf(v)] OBVIOUS
<1>2. [v |-> v, x |-> x] \in Items BY <1>1 DEF Items
<1>3. v \notin {"priv", "certdb"} => [v |-> v, x |-> x] \in Apart BY <1>2 DEF Apart
<1> QED BY <1>2, <1>3 DEF Item

LEMMA Joined ==
  ASSUME NEW S, NEW s \in Seq(S), NEW t \in Seq(S)
  PROVE  s \o t \in Seq(S)
OBVIOUS

LEMMA Widened ==
  ASSUME NEW S, NEW T, S \subseteq T, NEW s \in Seq(S)
  PROVE  s \in Seq(T)
OBVIOUS

LEMMA Tailed ==
  ASSUME NEW S, NEW s \in Seq(S), s # <<>>
  PROVE  Head(s) \in S /\ Tail(s) \in Seq(S)
OBVIOUS

LEMMA NothingToDo == ASSUME NEW S PROVE <<>> \in Seq(S)
OBVIOUS

LEMMA Pair == ASSUME NEW a, NEW b PROVE <<a>> \o <<b>> = <<a, b>>
<1> DEFINE s == <<a>> \o <<b>>
           t == <<a, b>>
<1>1. <<a>> \in Seq({a, b}) /\ <<b>> \in Seq({a, b}) OBVIOUS
<1>2. s \in Seq({a, b}) /\ Len(s) = 2 /\ s[1] = a /\ s[2] = b BY <1>1
<1>3. t \in Seq({a, b}) /\ Len(t) = 2 /\ t[1] = a /\ t[2] = b OBVIOUS
<1> HIDE DEF s, t
<1>4. DOMAIN s = 1..2 /\ DOMAIN t = 1..2 BY <1>2, <1>3
<1>5. \A n \in 1..2 : s[n] = t[n] BY <1>2, <1>3
<1>6. s = t BY <1>2, <1>3, <1>4, <1>5
<1> QED BY <1>6 DEF s, t

LEMMA EmptyList == Empty \in List /\ ~Exists(Empty)
<1>1. Empty \in List BY DEF Empty, List, Nothing
<1>2. \A k \in Keys : Empty.sigs[k] = 0 BY DEF Empty, Nothing
<1> QED BY <1>1, <1>2 DEF Exists

LEMMA RequestFacts ==
  /\ AllRequests \subseteq Request /\ Requests \subseteq Request
  /\ \A r \in Request : r.payload \in [Keys -> Nat] /\ r.var \in Lists /\ r.append \in BOOLEAN
BY AuthVariableAssumption DEF AllRequests, Request, Lists

LEMMA FilteredTyped ==
  ASSUME NEW r \in Request, NEW old
  PROVE  /\ Filtered(old, r) \in [Keys -> Nat]
         /\ \A k \in Keys : Filtered(old, r)[k] \in {0, r.payload[k]}
BY RequestFacts DEF Filtered

\* What a request leaves in its variable is a list.
LEMMA UpdatedTyped ==
  ASSUME Stored, NEW r \in Request
  PROVE  Updated(nv[r.var], r) \in TypeOf(r.var)
<1> DEFINE old == nv[r.var]
           new == Filtered(old, r)
           u == Updated(old, r)
<1>0. r.var \in Lists /\ r.ts \in Times /\ r.append \in BOOLEAN /\ r.payload \in [Keys -> Nat]
  BY DEF Request, Lists
<1>1. old \in List BY <1>0 DEF Stored, TypeOf, Lists, NvNames
<1>2. old.sigs \in [Keys -> Nat] /\ old.ts \in Times \cup {None} BY <1>1 DEF List
<1>3. new \in [Keys -> Nat] BY FilteredTyped
<1>7. TypeOf(r.var) = List BY <1>0 DEF TypeOf, Lists
<1> HIDE DEF new
<1>4. CASE r.append
  <2>1. u = [sigs |-> [k \in Keys |-> old.sigs[k] + new[k]], ts |-> Later(old.ts, r.ts)]
    BY <1>4 DEF Updated, new
  <2>2. Later(old.ts, r.ts) \in Times \cup {None} BY <1>0, <1>2 DEF Later
  <2>3. [k \in Keys |-> old.sigs[k] + new[k]] \in [Keys -> Nat] BY <1>2, <1>3
  <2>4. u \in List BY <2>1, <2>2, <2>3 DEF List
  <2> QED BY <2>4, <1>7
<1>5. CASE ~r.append /\ Listed(r) = {}
  BY <1>5, <1>0, EmptyList DEF Updated, Lists, TypeOf
<1>6. CASE ~r.append /\ Listed(r) # {}
  <2>1. u = [sigs |-> r.payload, ts |-> r.ts] BY <1>6 DEF Updated
  <2>2. u \in List BY <2>1, <1>0 DEF List
  <2> QED BY <2>2, <1>7
<1> QED BY <1>4, <1>5, <1>6, <1>0

\* A private variable that is written with a payload exists afterwards.
LEMMA UpdatedExists ==
  ASSUME Stored, NEW r \in AllRequests, r.var = "priv", Listed(r) # {}
  PROVE  Updated(nv.priv, r) \in List /\ Exists(Updated(nv.priv, r))
<1> DEFINE old == nv.priv
           u == Updated(old, r)
<1>0. r \in Request /\ r.payload \in [Keys -> Nat] /\ r.append \in BOOLEAN BY RequestFacts
<1>1. u \in List /\ old \in List BY <1>0, UpdatedTyped DEF TypeOf, Stored, NvNames, Lists
<1>2. PICK k \in Keys : r.payload[k] > 0 BY DEF Listed
<1>3. Filtered(old, r)[k] = r.payload[k] BY <1>2 DEF Filtered
<1>4. old.sigs[k] \in Nat /\ r.payload[k] \in Nat BY <1>0, <1>1 DEF List
<1>5. u.sigs[k] = IF r.append THEN old.sigs[k] + r.payload[k] ELSE r.payload[k]
  BY <1>2, <1>3 DEF Updated
<1>6. u.sigs[k] > 0 BY <1>2, <1>4, <1>5
<1>7. Exists(u) BY <1>2, <1>6 DEF Exists
<1> QED BY <1>1, <1>7

\* FilterSignatureList changes nothing but the payload and what vouches for it.
LEMMA RewrittenFacts ==
  ASSUME NEW r \in Request, NEW old, NEW b \in Rewritten(old, r)
  PROVE  /\ Alike(b, r)
         /\ \A k \in Keys : /\ b.payload[k] \in Nat /\ b.payload[k] >= Filtered(old, r)[k]
                            /\ b.payload[k] > 0 => r.payload[k] > 0
<1> DEFINE kept == Filtered(old, r)
           g == SumFunction(r.payload) - SumFunction(kept)
           p(t) == [k \in Keys |-> kept[k] + t[k]]
<1>0. r.payload \in [Keys -> Nat] /\ r.wellFormed \in BOOLEAN BY DEF Request
<1>1. kept \in [Keys -> Nat] /\ \A k \in Keys : kept[k] \in {0, r.payload[k]} BY FilteredTyped
<1>2. PICK t \in [Keys -> 0..g] :
        /\ \A k \in Keys : t[k] <= r.payload[k]
        /\ \/ p(t) = r.payload /\ b = r
           \/ \E w \in {FALSE, r.wellFormed} :
                b = [r EXCEPT !.payload = p(t), !.signer = NoKey, !.wellFormed = w]
  BY Zenon DEF Rewritten
<1> HIDE DEF kept, g
<1>3. \A k \in Keys : t[k] \in Nat BY <1>2
<1>4. p(t) \in [Keys -> Nat] BY <1>1, <1>3
<1>5. \A k \in Keys : p(t)[k] = kept[k] + t[k] OBVIOUS
<1>6. \A k \in Keys : /\ p(t)[k] \in Nat /\ p(t)[k] >= kept[k]
                      /\ p(t)[k] > 0 => r.payload[k] > 0
  BY <1>0, <1>1, <1>2, <1>3, <1>5
<1> HIDE DEF p
<1>7. b.payload = p(t)
  <2>1. ASSUME NEW w, b = [r EXCEPT !.payload = p(t), !.signer = NoKey, !.wellFormed = w]
        PROVE  b.payload = p(t)
    BY <2>1 DEF Request
  <2> QED BY <1>2, <2>1
<1>8. /\ b \in Request /\ b.var = r.var /\ b.append = r.append /\ b.ts = r.ts /\ b.fits = r.fits
  <2>1. ASSUME NEW w \in {FALSE, r.wellFormed},
               b = [r EXCEPT !.payload = p(t), !.signer = NoKey, !.wellFormed = w]
        PROVE  /\ b \in Request /\ b.var = r.var /\ b.append = r.append /\ b.ts = r.ts
               /\ b.fits = r.fits
    <3>1. w \in BOOLEAN BY <1>0
    <3> QED BY <2>1, <3>1, <1>4 DEF Request
  <2> QED BY <1>2, <2>1
<1> QED BY <1>6, <1>7, <1>8 DEF Alike, kept

\* What Submit leaves in the buffer.
LEMMA BufferFacts ==
  ASSUME NEW r \in Request, NEW p, NEW old,
         NEW b \in IF p = "pk" THEN Rewritten(old, r) ELSE {r}
  PROVE  /\ Alike(b, r) /\ (p # "pk" => b = r)
         /\ \A k \in Keys : /\ b.payload[k] \in Nat /\ b.payload[k] >= Filtered(old, r)[k]
                            /\ b.payload[k] > 0 => r.payload[k] > 0
<1>1. CASE p = "pk" BY <1>1, RewrittenFacts
<1>2. CASE p # "pk"
  <2>1. b = r BY <1>2
  <2>2. \A k \in Keys : r.payload[k] \in Nat /\ Filtered(old, r)[k] \in {0, r.payload[k]}
    BY FilteredTyped DEF Request
  <2>3. \A k \in Keys : r.payload[k] >= Filtered(old, r)[k] BY <2>2
  <2> QED BY <1>2, <2>1, <2>2, <2>3 DEF Alike
<1> QED BY <1>1, <1>2

-----------------------------------------------------------------------------
\* What the handlers write.
LEMMA WriteTyped ==
  ASSUME Stored, NEW r \in Request
  PROVE  Write(r) \in Seq(Items) /\ (r.var # "priv" => Write(r) \in Seq(Apart))
<1>1. r.var \in Lists BY RequestFacts
<1> QED BY <1>1, UpdatedTyped, ItemTyped DEF Write, Lists, Names, NvNames

LEMMA PlainItem ==
  ASSUME NEW v \in Names \ {"PK", "KEK", "db", "priv", "certdb"},
         NEW x \in {0, 1, Absent, SETUP_MODE, USER_MODE, "absent", "valid", "modified"}
  PROVE  Item(v, x) \in Seq(Apart)
<1>1. x \in TypeOf(v) BY DEF TypeOf
<1> QED BY <1>1, ItemTyped

LEMMA ModeApart ==
  ASSUME NEW mode \in {SETUP_MODE, USER_MODE}
  PROVE  UpdatePlatformMode(mode) \in Seq(Apart)
<1>1. Item("mPlatformMode", mode) \in Seq(Apart) BY PlainItem DEF Names, VolNames
<1>2. \A x \in {0, 1} : Item("SecureBoot", x) \in Seq(Apart) BY PlainItem DEF Names, VolNames
<1>3. \A x \in {1, Absent} : Item("SecureBootEnable", x) \in Seq(Apart)
  BY PlainItem DEF Names, NvNames
<1> DEFINE e == IF mode = USER_MODE THEN Item("SecureBootEnable", 1)
                ELSE IF nv.SecureBootEnable = Absent THEN <<>>
                ELSE Item("SecureBootEnable", Absent)
           b == Item("SecureBoot", IF mode = USER_MODE THEN 1 ELSE 0)
           f == IF phase = "runtime" THEN <<>> ELSE b \o e
<1>4. e \in Seq(Apart) BY <1>3, NothingToDo
<1>5. b \in Seq(Apart) BY <1>2
<1>6. f \in Seq(Apart)
  <2> HIDE DEF b, e
  <2> QED BY <1>4, <1>5, Joined, NothingToDo
<1>7. UpdatePlatformMode(mode) = Item("mPlatformMode", mode) \o f BY DEF UpdatePlatformMode
<1> HIDE DEF f
<1> QED BY <1>1, <1>6, <1>7, Joined

LEMMA VendorApart == VendorKeyIsModified \in Seq(Apart)
<1>1. /\ Item("mVendorKeyState", "modified") \in Seq(Apart)
      /\ Item("VendorKeysNv", "modified") \in Seq(Apart)
      /\ Item("VendorKeys", "modified") \in Seq(Apart)
  BY PlainItem DEF Names, VolNames, NvNames
<1> QED BY <1>1, Joined, NothingToDo DEF VendorKeyIsModified

LEMMA ChangeApart == ASSUME NEW r PROVE ModeChange(r) \in Seq(Apart)
BY ModeApart, NothingToDo DEF ModeChange

\* Requests for PK, KEK and db write neither certdb nor a private variable.
LEMMA KeyWritesApart ==
  ASSUME Stored, NEW r \in Request, r.var # "priv"
  PROVE  PkWrites(r) \in Seq(Apart) /\ KekWrites(r) \in Seq(Apart)
<1>1. Write(r) \in Seq(Apart) BY WriteTyped
<1> DEFINE p == IF Bypass(r) /\ (vol.mPlatformMode # SETUP_MODE
                                 \/ (PcdRequireSelfSignedPk /\ r.var = "PK"))
                THEN VendorKeyIsModified ELSE <<>>
           k == IF ~KekNeedsAuth /\ vol.mPlatformMode # SETUP_MODE
                THEN VendorKeyIsModified ELSE <<>>
<1>2. p \in Seq(Apart) /\ k \in Seq(Apart) BY VendorApart, NothingToDo
<1>3. ModeChange(r) \in Seq(Apart) BY ChangeApart
<1>4. PkWrites(r) = Write(r) \o p \o ModeChange(r) BY DEF PkWrites
<1>5. KekWrites(r) = Write(r) \o k BY DEF KekWrites
<1> HIDE DEF p, k
<1>6. Write(r) \o p \in Seq(Apart) BY <1>1, <1>2, Joined
<1> QED BY <1>1, <1>2, <1>3, <1>4, <1>5, <1>6, Joined

\* A request for a private variable writes the signer before a new variable,
\* deletes it after the variable, and leaves it alone otherwise.
LEMMA PrivWritesShape ==
  ASSUME Stored, NEW r \in AllRequests, r.var = "priv", PrivAccepts(r)
  PROVE  \/ /\ Exists(nv.priv)
            /\ PrivWrites(r) = <<[v |-> "priv", x |-> Empty], CertGone>>
         \/ /\ Exists(nv.priv)
            /\ \E y \in List : Exists(y) /\ PrivWrites(r) = <<[v |-> "priv", x |-> y]>>
         \/ /\ ~Exists(nv.priv)
            /\ \E k \in Keys, y \in List :
                 Exists(y) /\ PrivWrites(r) = <<[v |-> "certdb", x |-> k], [v |-> "priv", x |-> y]>>
<1> DEFINE y == Updated(nv.priv, r)
<1>0. r.append \in BOOLEAN /\ r.signer \in Keys \cup {NoKey} /\ (r.append => Listed(r) # {})
  BY DEF AllRequests, Request
<1>1. Write(r) = <<[v |-> "priv", x |-> y]>> BY DEF Write, Item
<1>2. Listed(r) # {} => y \in List /\ Exists(y) BY UpdatedExists
<1>3. CASE PresentDelete(r)
  <2>1. y = Empty BY <1>3, <1>0 DEF PresentDelete, Updated
  <2>2. PrivWrites(r) = Write(r) \o Item("certdb", NoKey) BY <1>3 DEF PrivWrites
  <2>3. PrivWrites(r) = <<[v |-> "priv", x |-> Empty], CertGone>>
    BY <1>1, <2>1, <2>2, Pair DEF Item, CertGone
  <2> QED BY <1>3, <2>3 DEF PresentDelete
<1>4. CASE ~PresentDelete(r) /\ Deletes(r)
  <2>1. y = Empty BY <1>4, <1>0 DEF Deletes, Updated
  <2>2. PrivWrites(r) = Write(r) \o Item("certdb", NoKey)
    BY <1>4 DEF PrivWrites, VerifiedWrites
  <2>3. PrivWrites(r) = <<[v |-> "priv", x |-> Empty], CertGone>>
    BY <1>1, <2>1, <2>2, Pair DEF Item, CertGone
  <2> QED BY <1>4, <2>3 DEF Deletes
<1>5. CASE ~PresentDelete(r) /\ ~Deletes(r) /\ Exists(nv.priv)
  <2>1. Listed(r) # {} BY <1>5, <1>0 DEF Deletes
  <2>2. PrivWrites(r) = Write(r) BY <1>5 DEF PrivWrites, VerifiedWrites
  <2> QED BY <1>1, <1>2, <1>5, <2>1, <2>2
<1>6. CASE ~PresentDelete(r) /\ ~Exists(nv.priv)
  <2>1. Verified(r, "Priv") BY <1>6 DEF PrivAccepts
  <2>2. Listed(r) # {} BY <2>1, <1>6 DEF Verified, Writable
  <2>3. Trusted(r, "Priv") BY <2>1, <2>2 DEF Verified, Unsigned
  <2>4. r.signer \in Keys BY <2>3, <1>0 DEF Trusted
  <2>5. PrivWrites(r) = Item("certdb", r.signer) \o Write(r)
    BY <1>6 DEF PrivWrites, VerifiedWrites, InsertCertsFirst, Deletes
  <2>6. PrivWrites(r) = <<[v |-> "certdb", x |-> r.signer], [v |-> "priv", x |-> y]>>
    BY <2>5, <1>1, Pair DEF Item
  <2> HIDE DEF y
  <2> QED BY <2>2, <2>4, <2>6, <1>2, <1>6
<1> QED BY <1>3, <1>4, <1>5, <1>6

LEMMA Parts == Apart \subseteq Items /\ CertGone \in Items
<1>1. NoKey \in TypeOf("certdb") /\ "certdb" \in Names BY DEF TypeOf, Names, NvNames
<1>2. CertGone \in Items BY <1>1, ItemTyped DEF CertGone
<1> QED BY <1>2 DEF Apart

\* What AuthVariableLibInitialize writes: with a private variable nothing of
\* certdb, without one the deletion of a signer if there is one.
LEMMA InitShape ==
  ASSUME NEW n, NEW c,
         n.VendorKeysNv \in {0, 1, Absent, SETUP_MODE, USER_MODE, "absent", "valid", "modified"}
  PROVE  /\ Exists(n.priv) => InitWrites(n, c) \in Seq(Apart)
         /\ InitWrites(n, c) \in Seq(Apart \cup {CertGone})
         /\ ~Exists(n.priv) /\ n.certdb # NoKey =>
              \E m \in 1..Len(InitWrites(n, c)) : InitWrites(n, c)[m] = CertGone
<1> DEFINE policy == IF c = 0 THEN 0 ELSE 1
           a == InitMode(n, policy)
           b == InitVendorKeys(n)
           mode == Item("mPlatformMode", IF Exists(n.PK) THEN USER_MODE ELSE SETUP_MODE)
           enable == IF Exists(n.PK) /\ n.SecureBootEnable # policy
                     THEN Item("SecureBootEnable", policy) ELSE <<>>
           boot == Item("SecureBoot", IF Exists(n.PK) THEN policy ELSE 0)
           custom == Item("CustomMode", 0)
<1>1. mode \in Seq(Apart)
  BY PlainItem DEF Names, VolNames
<1>2. enable \in Seq(Apart)
  <2>1. Item("SecureBootEnable", policy) \in Seq(Apart) BY PlainItem DEF Names, NvNames
  <2> QED BY <2>1, NothingToDo
<1>3. boot \in Seq(Apart) /\ custom \in Seq(Apart)
  BY PlainItem DEF Names, VolNames, NvNames
<1>4. a = mode \o enable \o boot \o custom BY DEF InitMode
<1>5. a \in Seq(Apart)
  <2> HIDE DEF a, mode, enable, boot, custom
  <2> QED BY <1>1, <1>2, <1>3, <1>4, Joined
<1>6. b \in Seq(Apart)
  <2>1. /\ Item("mVendorKeyState", "valid") \in Seq(Apart)
        /\ Item("VendorKeysNv", "valid") \in Seq(Apart)
        /\ Item("VendorKeys", "valid") \in Seq(Apart)
        /\ Item("mVendorKeyState", n.VendorKeysNv) \in Seq(Apart)
        /\ Item("VendorKeys", n.VendorKeysNv) \in Seq(Apart)
    BY PlainItem DEF Names, VolNames, NvNames
  <2> QED BY <2>1, Joined DEF InitVendorKeys
<1> DEFINE S == Apart \cup {CertGone}
<1>7. a \in Seq(S) /\ b \in Seq(S) BY <1>5, <1>6, Widened
<1>8. CASE CleanCertsFromDb(n) = n.certdb
  <2>1. InitWrites(n, c) = a \o <<>> \o b BY <1>8 DEF InitWrites
  <2>2. Exists(n.priv) \/ n.certdb = NoKey BY <1>8 DEF CleanCertsFromDb
  <2> HIDE DEF a, b
  <2>3. a \o <<>> \o b \in Seq(Apart) BY <1>5, <1>6, Joined, NothingToDo
  <2>4. InitWrites(n, c) \in Seq(S) BY <2>1, <2>3, Widened
  <2> QED BY <2>1, <2>2, <2>3, <2>4
<1>9. CASE CleanCertsFromDb(n) # n.certdb
  <2>1. ~Exists(n.priv) /\ CleanCertsFromDb(n) = NoKey BY <1>9 DEF CleanCertsFromDb
  <2>2. InitWrites(n, c) = a \o <<CertGone>> \o b
    BY <1>9, <2>1 DEF InitWrites, Item, CertGone
  <2> HIDE DEF a, b, S
  <2> DEFINE j == a \o <<CertGone>> \o b
  <2>3. CertGone \in S BY DEF S
  <2>4. j \in Seq(S) /\ Len(a) + 1 \in 1..Len(j) /\ j[Len(a) + 1] = CertGone
    BY <2>3, <1>7
  <2>5. InitWrites(n, c) = j BY <2>2
  <2> HIDE DEF j
  <2> QED BY <2>1, <2>4, <2>5 DEF S
<1> QED BY <1>8, <1>9

-----------------------------------------------------------------------------
\* A start, from variables that are typed and have their signers.
LEMMA StartInv ==
  ASSUME Stored, SignerKnown, nv' = nv, vol' = Started, req' = NoReq, buffer' = NoReq, NEW c,
         todo' = InitWrites(nv, c)
  PROVE  AuthInv'
<1>1. nv.VendorKeysNv \in {0, 1, Absent, SETUP_MODE, USER_MODE, "absent", "valid", "modified"}
  BY DEF Stored, TypeOf, NvNames
<1>2. Stored' BY DEF Stored, Started, VolNames
<1>3. todo' \in Seq(Apart \cup {CertGone}) BY <1>1, InitShape
<1>4. todo' \in Seq(Items)
  <2>1. Apart \cup {CertGone} \subseteq Items BY Parts
  <2> QED BY <1>3, <2>1, Widened
<1>5. StoreInv' BY <1>2, <1>4 DEF StoreInv, Alike
<1>6. CASE Exists(nv.priv)
  <2>1. todo' \in Seq(Apart) BY <1>1, <1>6, InitShape
  <2>2. SignerKnown' BY DEF SignerKnown, Exists
  <2>3. Exists(nv.priv)' BY <1>6 DEF Exists
  <2> QED BY <1>5, <2>1, <2>2, <2>3 DEF AuthInv, SignerInv, OrphanInv
<1>7. CASE ~Exists(nv.priv)
  <2>1. ~Exists(nv.priv)' BY <1>7 DEF Exists
  <2>2. nv.certdb # NoKey => \E m \in 1..Len(todo') : todo'[m] = CertGone
    BY <1>1, <1>7, InitShape
  <2>3. CertGone.v = "certdb" BY DEF CertGone
  <2>4. OrphanInv' BY <2>2, <2>3 DEF OrphanInv
  <2> QED BY <1>3, <1>5, <2>1, <2>4 DEF AuthInv, SignerInv
<1> QED BY <1>6, <1>7

\* The signer is known whatever is still to be written.
LEMMA SignerAlways == SignerInv => SignerKnown
BY DEF SignerInv, SignerKnown

LEMMA AuthInit == Init => AuthInv
<1> SUFFICES ASSUME Init PROVE AuthInv
  OBVIOUS
<1>1. nv = Blank /\ todo = InitWrites(Blank, cfg) /\ vol = Started /\ req = NoReq /\ buffer = NoReq
  BY DEF Init
<1>2. ~Exists(Blank.priv) /\ Blank.certdb = NoKey /\ Blank.VendorKeysNv = "absent"
  BY EmptyList DEF Blank
<1>3. todo \in Seq(Apart \cup {CertGone}) BY <1>1, <1>2, InitShape
<1>4. todo \in Seq(Items)
  <2>1. Apart \cup {CertGone} \subseteq Items BY Parts
  <2> QED BY <1>3, <2>1, Widened
<1>5. Stored
  BY <1>1, EmptyList DEF Stored, Blank, Started, NvNames, VolNames, TypeOf
<1> QED BY <1>1, <1>2, <1>3, <1>4, <1>5 DEF AuthInv, StoreInv, Alike, SignerInv, OrphanInv

\* Writes that leave certdb and the private variable alone.
LEMMA ApartInv ==
  ASSUME AuthInv, UNCHANGED <<nv, vol>>, todo' \in Seq(Apart),
         req' \in Requests \cup {NoReq}, Alike(buffer', req'),
         failed' \/ (todo = <<>> /\ failed' = failed /\ (phase' = "dead" \/ phase # "dead"))
  PROVE  AuthInv'
<1>1. todo' \in Seq(Items) BY Parts, Widened
<1>2. StoreInv' BY <1>1 DEF AuthInv, StoreInv, Stored
<1>3. SignerKnown BY SignerAlways DEF AuthInv
<1>4. SignerKnown' BY <1>3 DEF SignerKnown, Exists
<1>5. OrphanInv'
  <2>1. CASE failed' BY <2>1 DEF OrphanInv
  <2>2. CASE phase' = "dead" BY <2>2 DEF OrphanInv
  <2>3. CASE ~failed' /\ phase' # "dead"
    <3>1. todo = <<>> /\ ~failed /\ phase # "dead" BY <2>3
    <3>2. nv.certdb # NoKey => Exists(nv.priv) BY <3>1 DEF AuthInv, OrphanInv
    <3>3. nv'.certdb # NoKey => Exists(nv'.priv) BY <3>2
    <3> QED BY <3>3 DEF OrphanInv
  <2> QED BY <2>1, <2>2, <2>3
<1> QED BY <1>2, <1>4, <1>5 DEF AuthInv, SignerInv

\* AuthVariableLibProcessVariable.
LEMMA SubmitInv ==
  ASSUME AuthInv, NEW r \in Requests, Submit(r)
  PROVE  AuthInv'
<1>0. /\ todo = <<>> /\ phase # "dead" /\ phase' = phase /\ failed' = failed
      /\ UNCHANGED <<nv, vol>>
  BY DEF Submit, Idle
<1>1. r \in AllRequests /\ r \in Request /\ Stored /\ req \in Requests \cup {NoReq} /\ Alike(buffer, req)
  BY AuthVariableAssumption, RequestFacts DEF AuthInv, StoreInv
<1>2. CASE todo' = todo /\ req' = req /\ buffer' = buffer
  BY <1>0, <1>1, <1>2, ApartInv, NothingToDo
<1>5. ASSUME Accepts(FirstPath(r), r)
      PROVE  todo' = Writes(FirstPath(r), r) /\ req' = r /\ Alike(buffer', r)
  <2>1. /\ todo' = Writes(FirstPath(r), r) /\ req' = r
        /\ buffer' \in IF FirstPath(r) = "pk" THEN Rewritten(nv[r.var], r) ELSE {r}
    BY <1>5 DEF Submit
  <2>2. Alike(buffer', r) BY <1>1, <2>1, BufferFacts
  <2> QED BY <2>1, <2>2
<1>3. CASE Accepts(FirstPath(r), r) /\ r.var # "priv"
  <2>1. FirstPath(r) \in {"pk", "kek"} BY <1>3 DEF FirstPath
  <2>2. todo' \in Seq(Apart) BY <1>1, <1>3, <1>5, <2>1, KeyWritesApart DEF Writes
  <2> QED BY <1>0, <1>3, <1>5, <2>2, ApartInv
<1>4. CASE Accepts(FirstPath(r), r) /\ r.var = "priv"
  <2>1. FirstPath(r) = "priv" BY <1>4 DEF FirstPath
  <2>2. PrivAccepts(r) /\ todo' = PrivWrites(r) BY <1>4, <1>5, <2>1 DEF Accepts, Writes
  <2>3. SignerKnown BY SignerAlways DEF AuthInv
  <2>4. \A y \in List : [v |-> "priv", x |-> y] \in Items
    <3>1. "priv" \in Names /\ TypeOf("priv") = List BY DEF Names, NvNames, TypeOf, Lists
    <3> QED BY <3>1, ItemTyped
  <2>5. \A k \in Keys : [v |-> "certdb", x |-> k] \in Items
    <3>1. "certdb" \in Names /\ TypeOf("certdb") = Keys \cup {NoKey} BY DEF Names, NvNames, TypeOf, Lists
    <3> QED BY <3>1, ItemTyped
  <2>6. ASSUME todo' \in Seq(Items), SignerInv',
               \E n \in 1..Len(todo') : todo'[n].v \in {"certdb", "priv"}
        PROVE  AuthInv'
    BY <2>6, <1>0, <1>1, <1>4, <1>5 DEF AuthInv, StoreInv, Stored, OrphanInv
  <2>7. CASE Exists(nv.priv) /\ todo' = <<[v |-> "priv", x |-> Empty], CertGone>>
    <3>1. todo' \in Seq(Items) BY <2>7, <2>4, Parts, EmptyList
    <3>2. SignerInv' BY <2>7, <2>3, <1>0 DEF SignerInv, SignerKnown
    <3>3. 1 \in 1..Len(todo') /\ todo'[1].v = "priv" BY <2>7
    <3> QED BY <3>1, <3>2, <3>3, <2>6
  <2>8. ASSUME NEW y \in List, Exists(nv.priv), Exists(y), todo' = <<[v |-> "priv", x |-> y]>>
        PROVE  AuthInv'
    <3>1. todo' \in Seq(Items) BY <2>8, <2>4
    <3>2. nv'.certdb # NoKey BY <2>8, <2>3, <1>0 DEF SignerKnown
    <3>3. SignerInv' BY <2>8, <3>2 DEF SignerInv
    <3>4. 1 \in 1..Len(todo') /\ todo'[1].v = "priv" BY <2>8
    <3> QED BY <3>1, <3>3, <3>4, <2>6
  <2>9. ASSUME NEW k \in Keys, NEW y \in List, ~Exists(nv.priv), Exists(y),
               todo' = <<[v |-> "certdb", x |-> k], [v |-> "priv", x |-> y]>>
        PROVE  AuthInv'
    <3>1. todo' \in Seq(Items) BY <2>9, <2>4, <2>5
    <3>2. ~Exists(nv'.priv) BY <2>9, <1>0
    <3>3. SignerInv' BY <2>9, <3>2 DEF SignerInv
    <3>4. 1 \in 1..Len(todo') /\ todo'[1].v = "certdb" BY <2>9
    <3> QED BY <3>1, <3>3, <3>4, <2>6
  <2> QED BY <1>1, <1>4, <2>2, <2>7, <2>8, <2>9, PrivWritesShape
<1>6. CASE ~Accepts(FirstPath(r), r)
  <2>1. todo' = todo /\ req' = req /\ buffer' = buffer BY <1>6 DEF Submit, reqVars
  <2> QED BY <2>1, <1>2
<1> QED BY <1>3, <1>4, <1>6

\* One write.
LEMMA ApplyInv ==
  ASSUME AuthInv, Apply
  PROVE  AuthInv'
<1> DEFINE i == Head(todo)
<1>0. todo # <<>> /\ todo' = Tail(todo) /\ failed' = failed BY DEF Apply
<1>1. todo \in Seq(Items) /\ Stored /\ req \in Requests \cup {NoReq} /\ Alike(buffer, req)
  BY DEF AuthInv, StoreInv
<1>2. i \in Items /\ todo' \in Seq(Items) BY <1>0, <1>1, Tailed
<1>3. i.v \in Names /\ i.x \in TypeOf(i.v) BY <1>2, ItemFacts
<1>4. IF i.v \in VolNames THEN vol' = [vol EXCEPT ![i.v] = i.x] /\ nv' = nv
      ELSE nv' = [nv EXCEPT ![i.v] = i.x] /\ vol' = vol
  BY <1>1 DEF Apply, Stored
<1>5. req' \in Requests \cup {NoReq} /\ Alike(buffer', req')
  <2>1. Alike(NoReq, NoReq) BY DEF Alike
  <2> QED BY <1>1, <2>1 DEF Apply, NoRequest, reqVars
<1> HIDE DEF i
<1>6. Stored'
  <2>1. CASE i.v \in VolNames BY <2>1, <1>1, <1>4 DEF Stored
  <2>2. CASE i.v \notin VolNames
    <3>1. i.v \in NvNames BY <2>2, <1>3 DEF Names
    <3> QED BY <2>2, <3>1, <1>1, <1>3, <1>4 DEF Stored
  <2> QED BY <2>1, <2>2
<1>7. StoreInv' BY <1>2, <1>5, <1>6 DEF StoreInv
<1>8. \A v \in {"priv", "certdb"} : nv'[v] = IF i.v = v THEN i.x ELSE nv[v]
  BY <1>1, <1>3, <1>4 DEF Stored, NvNames, VolNames, Names
<1>9. phase' = "dead" => phase = "dead" BY DEF Apply
<1>10. CASE todo \in Seq(Apart) /\ SignerKnown
  <2>1. i \in Apart /\ todo' \in Seq(Apart) BY <1>0, <1>10, Tailed DEF i
  <2>2. nv'.priv = nv.priv /\ nv'.certdb = nv.certdb BY <1>8, <2>1 DEF Apart
  <2>3. SignerKnown' BY <1>10, <2>2 DEF SignerKnown
  <2>4. ~\E n \in 1..Len(todo) : todo[n].v \in {"certdb", "priv"} BY <1>10 DEF Apart
  <2>5. OrphanInv'
    <3> SUFFICES ASSUME ~failed', phase' # "dead" PROVE nv'.certdb # NoKey => Exists(nv'.priv)
      BY DEF OrphanInv
    <3>1. CASE phase # "dead" BY <3>1, <1>0, <2>2, <2>4 DEF AuthInv, OrphanInv
    <3>2. CASE phase = "dead" BY <3>2 DEF Apply
    <3> QED BY <3>1, <3>2
  <2> QED BY <1>7, <2>1, <2>3, <2>5 DEF AuthInv, SignerInv
<1>11. CASE todo \in Seq(Apart \cup {CertGone}) /\ ~Exists(nv.priv)
  <2>1. i \in Apart \cup {CertGone} /\ todo' \in Seq(Apart \cup {CertGone})
    BY <1>0, <1>11, Tailed DEF i
  <2>2. i.v # "priv" BY <2>1 DEF Apart, CertGone
  <2>3. ~Exists(nv'.priv) BY <1>8, <1>11, <2>2
  <2>4. CASE i = CertGone
    <3>1. nv'.certdb = NoKey BY <1>8, <2>4 DEF CertGone
    <3>2. OrphanInv' BY <3>1 DEF OrphanInv
    <3> QED BY <1>7, <2>1, <2>3, <3>2 DEF AuthInv, SignerInv
  <2>5. CASE i # CertGone
    <3>1. i.v \notin {"priv", "certdb"} BY <2>1, <2>5 DEF Apart
    <3>2. nv'.certdb = nv.certdb BY <1>8, <3>1
    <3>3. ASSUME NEW n \in 1..Len(todo), todo[n].v \in {"certdb", "priv"}
          PROVE  \E m \in 1..Len(todo') : todo'[m].v \in {"certdb", "priv"}
      <4>1. n # 1 BY <3>1, <3>3, <1>0, <1>1 DEF i
      <4>2. n - 1 \in 1..Len(todo') /\ todo'[n - 1] = todo[n] BY <4>1, <1>0, <1>1
      <4> QED BY <4>2, <3>3
    <3>4. OrphanInv'
      <4> SUFFICES ASSUME ~failed', phase' # "dead"
                   PROVE  \/ nv'.certdb # NoKey => Exists(nv'.priv)
                          \/ \E m \in 1..Len(todo') : todo'[m].v \in {"certdb", "priv"}
        BY DEF OrphanInv
      <4>1. phase # "dead" BY DEF Apply
      <4>2. \/ nv.certdb # NoKey => Exists(nv.priv)
            \/ \E n \in 1..Len(todo) : todo[n].v \in {"certdb", "priv"}
        BY <1>0, <4>1 DEF AuthInv, OrphanInv
      <4> QED BY <4>2, <3>2, <3>3, <1>11
    <3> QED BY <1>7, <2>1, <2>3, <3>4 DEF AuthInv, SignerInv
  <2> QED BY <2>4, <2>5
<1>12. ASSUME NEW k \in Keys, NEW y \in List, Exists(y), ~Exists(nv.priv),
              todo = <<[v |-> "certdb", x |-> k], [v |-> "priv", x |-> y]>>
       PROVE  AuthInv'
  <2>1. i.v = "certdb" /\ i.x = k /\ todo' = <<[v |-> "priv", x |-> y]>> BY <1>0, <1>12 DEF i
  <2>2. nv'.certdb # NoKey BY <1>8, <2>1, AuthVariableAssumption
  <2>3. 1 \in 1..Len(todo') /\ todo'[1].v = "priv" BY <2>1
  <2>4. OrphanInv' BY <2>3 DEF OrphanInv
  <2>5. SignerInv' BY <2>1, <2>2, <1>12 DEF SignerInv
  <2> QED BY <1>7, <2>4, <2>5 DEF AuthInv
<1>13. ASSUME NEW y \in List, Exists(y), nv.certdb # NoKey, todo = <<[v |-> "priv", x |-> y]>>
       PROVE  AuthInv'
  <2>1. i.v = "priv" /\ i.x = y /\ todo' = <<>> BY <1>0, <1>13 DEF i
  <2>2. nv'.certdb # NoKey /\ Exists(nv'.priv) BY <1>8, <1>13, <2>1
  <2>3. todo' \in Seq(Apart) BY <2>1, NothingToDo
  <2> QED BY <1>7, <2>2, <2>3 DEF AuthInv, SignerInv, SignerKnown, OrphanInv
<1>14. CASE todo = <<[v |-> "priv", x |-> Empty], CertGone>> /\ nv.certdb # NoKey
  <2>1. i.v = "priv" /\ i.x = Empty /\ todo' = <<CertGone>> BY <1>0, <1>14 DEF i
  <2>2. ~Exists(nv'.priv) BY <1>8, <2>1, EmptyList
  <2>3. todo' \in Seq(Apart \cup {CertGone}) BY <2>1
  <2>4. 1 \in 1..Len(todo') /\ todo'[1].v = "certdb" BY <2>1 DEF CertGone
  <2>5. OrphanInv' BY <2>4 DEF OrphanInv
  <2> QED BY <1>7, <2>2, <2>3, <2>5 DEF AuthInv, SignerInv
<1> QED BY <1>10, <1>11, <1>12, <1>13, <1>14 DEF AuthInv, SignerInv

\* One write is refused.
LEMMA RefuseInv ==
  ASSUME AuthInv, Refuse
  PROVE  AuthInv'
<1>0. UNCHANGED <<nv, vol>> BY DEF Refuse
<1>1. Stored /\ req \in Requests \cup {NoReq} /\ Alike(buffer, req) BY DEF AuthInv, StoreInv
<1>2. CASE UNCHANGED <<phase, todo, reqVars, failed>>
  BY <1>0, <1>2
  DEF AuthInv, StoreInv, Stored, Alike, reqVars, SignerInv, SignerKnown, OrphanInv, Exists
<1>3. CASE phase' = "dead" /\ todo' = <<>> /\ UNCHANGED reqVars
  <2>1. todo' \in Seq(Apart) /\ todo' \in Seq(Items) BY <1>3, NothingToDo
  <2>2. SignerKnown BY SignerAlways DEF AuthInv
  <2>3. SignerKnown' BY <2>2, <1>0 DEF SignerKnown
  <2>4. StoreInv' BY <1>0, <1>1, <1>3, <2>1 DEF StoreInv, Stored, Alike, reqVars
  <2> QED BY <1>3, <2>1, <2>3, <2>4 DEF AuthInv, SignerInv, OrphanInv
<1>4. CASE failed' = TRUE /\ todo' = <<>> /\ NoRequest
  <2>1. todo' \in Seq(Apart) BY <1>4, NothingToDo
  <2>2. Alike(NoReq, NoReq) BY DEF Alike
  <2> QED BY <1>0, <1>4, <2>1, <2>2, ApartInv DEF NoRequest
<1>5. CASE /\ failed' = TRUE /\ req.var = "db" /\ todo' = KekWrites(buffer)
           /\ UNCHANGED <<req, buffer>>
  <2>1. buffer \in Request /\ buffer.var = "db" BY <1>1, <1>5 DEF NoReq, Alike
  <2>2. todo' \in Seq(Apart) BY <2>1, <1>5, <1>1, KeyWritesApart
  <2> QED BY <1>0, <1>1, <1>5, <2>2, ApartInv
<1> QED BY <1>2, <1>3, <1>4, <1>5 DEF Refuse

LEMMA AuthStep == AuthInv /\ [Next]_vars => AuthInv'
<1> SUFFICES ASSUME AuthInv, [Next]_vars PROVE AuthInv'
  OBVIOUS
<1>1. Stored /\ SignerKnown /\ req \in Requests \cup {NoReq} /\ Alike(buffer, req)
  BY SignerAlways DEF AuthInv, StoreInv
<1>2. ASSUME NEW r \in Requests, Submit(r) PROVE AuthInv' BY <1>2, SubmitInv
<1>3. ASSUME NEW v \in {"CustomMode", "SecureBootEnable"}, NEW x \in 0..1, SetMode(v, x)
      PROVE  AuthInv'
  <2>1. Item(v, x) \in Seq(Apart) BY PlainItem DEF Names, NvNames
  <2>2. todo' \in Seq(Apart) BY <1>3, <2>1, NothingToDo DEF SetMode
  <2> QED BY <1>1, <1>3, <2>2, ApartInv DEF SetMode, reqVars
<1>4. CASE Apply BY <1>4, ApplyInv
<1>5. CASE Refuse BY <1>5, RefuseInv
<1>6. CASE ExitBootServices \/ Buttons
  <2>1. todo' = <<>> /\ todo = <<>> BY <1>6 DEF ExitBootServices, Buttons
  <2>2. todo' \in Seq(Apart) BY <2>1, NothingToDo
  <2> QED BY <1>1, <1>6, <2>1, <2>2, ApartInv DEF ExitBootServices, Buttons, reqVars
<1>7. CASE Reset
  <2>1. PICK c \in Configs : todo' = InitWrites(nv, c) BY <1>7 DEF Reset, Start
  <2> QED BY <1>1, <1>7, <2>1, StartInv DEF Reset, Start, NoRequest
<1>8. CASE UNCHANGED vars
  BY <1>8 DEF vars, reqVars, AuthInv, StoreInv, Stored, Alike, SignerInv, SignerKnown, OrphanInv, Exists
<1> QED BY <1>2, <1>3, <1>4, <1>5, <1>6, <1>7, <1>8 DEF Next

LEMMA AuthInvariant == Spec => []AuthInv
BY AuthInit, AuthStep, PTL DEF Spec

-----------------------------------------------------------------------------
\* For every set of keys and requests, wherever a write is refused or power is
\* lost, a private variable has its signer in certdb (InsertCertsToDb before the
\* variable, DeleteCertsFromDb after it), and between requests there is no signer
\* without a variable unless a write was refused since the start.
THEOREM SignersStay == Spec => []SignersMatch
<1>1. AuthInv => SignersMatch
  <2> SUFFICES ASSUME AuthInv PROVE SignerKnown /\ NoOrphanSigner
    BY DEF SignersMatch
  <2>1. SignerKnown BY SignerAlways DEF AuthInv
  <2>2. ASSUME Idle, ~failed, nv.certdb # NoKey PROVE Exists(nv.priv)
    <3>1. todo = <<>> /\ phase # "dead" BY <2>2 DEF Idle
    <3> QED BY <2>2, <3>1 DEF AuthInv, OrphanInv
  <2> QED BY <2>1, <2>2 DEF NoOrphanSigner
<1> QED BY <1>1, AuthInvariant, PTL

-----------------------------------------------------------------------------
(***************************************************************************)
(* What becomes of one variable: the writes still to make leave it alone,  *)
(* or write it once.                                                       *)
(***************************************************************************)
Skips(t, v) == \A n \in 1..Len(t) : t[n].v # v

Sets(t, v, x) ==
  \E n \in 1..Len(t) : t[n].v = v /\ t[n].x = x /\ \A m \in 1..Len(t) : t[m].v = v => m = n

\* x is what v will hold when they are made; it holds now.
Will(t, v, x, now) == Sets(t, v, x) \/ (Skips(t, v) /\ x = now)

\* The first write decides a variable or leaves it to the others.
LEMMA WillTail ==
  ASSUME NEW t \in Seq(Items), t # <<>>, NEW v, NEW x, NEW now, Will(t, v, x, now)
  PROVE  /\ Will(Tail(t), v, x, IF Head(t).v = v THEN Head(t).x ELSE now)
         /\ Head(t).v = v => Head(t).x = x
<1> DEFINE u == Tail(t)
<1>1. u \in Seq(Items) /\ Len(u) = Len(t) - 1 /\ Head(t) = t[1] /\ Len(t) \in Nat /\ Len(t) >= 1
  OBVIOUS
<1>2. \A n \in 1..Len(u) : u[n] = t[n + 1] /\ n + 1 \in 1..Len(t) OBVIOUS
<1> HIDE DEF u
<1>3. CASE Skips(t, v) /\ x = now
  <2>1. Head(t).v # v BY <1>1, <1>3 DEF Skips
  <2>2. Skips(u, v) BY <1>2, <1>3 DEF Skips
  <2> QED BY <1>3, <2>1, <2>2 DEF Will, u
<1>4. CASE Sets(t, v, x)
  <2>1. PICK n \in 1..Len(t) :
          t[n].v = v /\ t[n].x = x /\ \A m \in 1..Len(t) : t[m].v = v => m = n
    BY <1>4 DEF Sets
  <2>2. CASE n = 1
    <3>1. Head(t).v = v /\ Head(t).x = x BY <1>1, <2>1, <2>2
    <3>2. Skips(u, v)
      <4> SUFFICES ASSUME NEW m \in 1..Len(u), u[m].v = v PROVE FALSE BY DEF Skips
      <4>1. t[m + 1].v = v /\ m + 1 \in 1..Len(t) BY <1>2
      <4> QED BY <1>1, <2>1, <2>2, <4>1
    <3> QED BY <3>1, <3>2 DEF Will, u
  <2>3. CASE n # 1
    <3>1. n - 1 \in 1..Len(u) BY <1>1, <2>3
    <3>2. u[n - 1] = t[n] BY <1>1, <1>2, <3>1
    <3>3. ASSUME NEW m \in 1..Len(u), u[m].v = v PROVE m = n - 1
      <4>1. t[m + 1].v = v /\ m + 1 \in 1..Len(t) BY <1>2, <3>3
      <4>2. m + 1 = n BY <2>1, <4>1
      <4> QED BY <4>2
    <3>4. Sets(u, v, x) BY <3>1, <3>2, <3>3, <2>1 DEF Sets
    <3>5. Head(t).v # v BY <1>1, <2>1, <2>3
    <3> QED BY <3>4, <3>5 DEF Will, u
  <2> QED BY <2>2, <2>3
<1> QED BY <1>3, <1>4 DEF Will

LEMMA ItemEnds ==
  ASSUME NEW w, NEW x
  PROVE  Sets(Item(w, x), w, x) /\ \A v : v # w => Skips(Item(w, x), v)
<1>1. Len(Item(w, x)) = 1 /\ Item(w, x)[1].v = w /\ Item(w, x)[1].x = x BY DEF Item
<1> QED BY <1>1 DEF Sets, Skips

LEMMA NoneSkips == ASSUME NEW v PROVE Skips(<<>>, v)
BY DEF Skips

\* What two lists of writes do, one after the other.
LEMMA JoinedEnds ==
  ASSUME NEW s \in Seq(Items), NEW t \in Seq(Items), NEW v
  PROVE  /\ Skips(s, v) /\ Skips(t, v) => Skips(s \o t, v)
         /\ \A x : Sets(s, v, x) /\ Skips(t, v) => Sets(s \o t, v, x)
         /\ \A x : Skips(s, v) /\ Sets(t, v, x) => Sets(s \o t, v, x)
<1> DEFINE j == s \o t
<1>1. Len(j) = Len(s) + Len(t) /\ Len(s) \in Nat /\ Len(t) \in Nat OBVIOUS
<1>2. \A n \in 1..Len(s) : j[n] = s[n] OBVIOUS
<1>3. \A n \in 1..Len(t) : j[Len(s) + n] = t[n] OBVIOUS
<1> HIDE DEF j
<1>4. \A n \in 1..Len(j) : \/ n \in 1..Len(s) /\ j[n] = s[n]
                           \/ n - Len(s) \in 1..Len(t) /\ j[n] = t[n - Len(s)]
  <2> TAKE n \in 1..Len(j)
  <2>1. CASE n <= Len(s) BY <2>1, <1>2
  <2>2. CASE n > Len(s)
    <3>1. n - Len(s) \in 1..Len(t) BY <2>2, <1>1
    <3>2. Len(s) + (n - Len(s)) = n BY <1>1
    <3> QED BY <3>1, <3>2, <1>3
  <2> QED BY <2>1, <2>2, <1>1
<1>5. Skips(s, v) /\ Skips(t, v) => Skips(j, v) BY <1>4 DEF Skips
<1>6. ASSUME NEW x, Sets(s, v, x), Skips(t, v) PROVE Sets(j, v, x)
  <2>1. PICK n \in 1..Len(s) :
          s[n].v = v /\ s[n].x = x /\ \A m \in 1..Len(s) : s[m].v = v => m = n
    BY <1>6 DEF Sets
  <2>2. n \in 1..Len(j) /\ j[n] = s[n] BY <1>1, <1>2
  <2>3. \A m \in 1..Len(j) : j[m].v = v => m = n BY <1>4, <1>6, <2>1 DEF Skips
  <2> QED BY <2>1, <2>2, <2>3 DEF Sets
<1>7. ASSUME NEW x, Skips(s, v), Sets(t, v, x) PROVE Sets(j, v, x)
  <2>1. PICK n \in 1..Len(t) :
          t[n].v = v /\ t[n].x = x /\ \A m \in 1..Len(t) : t[m].v = v => m = n
    BY <1>7 DEF Sets
  <2>2. Len(s) + n \in 1..Len(j) /\ j[Len(s) + n] = t[n] BY <1>1, <1>3
  <2>3. ASSUME NEW m \in 1..Len(j), j[m].v = v PROVE m = Len(s) + n
    <3>1. m - Len(s) \in 1..Len(t) /\ t[m - Len(s)].v = v BY <1>4, <1>7, <2>3 DEF Skips
    <3>2. m - Len(s) = n BY <2>1, <3>1
    <3> QED BY <3>2, <1>1
  <2> QED BY <2>1, <2>2, <2>3 DEF Sets
<1> QED BY <1>5, <1>6, <1>7 DEF j

LEMMA ApartItems == ASSUME NEW s \in Seq(Apart) PROVE s \in Seq(Items)
BY Parts, Widened

-----------------------------------------------------------------------------
VendorNames == {"mVendorKeyState", "VendorKeysNv", "VendorKeys"}
ModeNames == {"mPlatformMode", "SecureBoot", "SecureBootEnable"}

LEMMA VendorItems ==
  ASSUME NEW v \in VendorNames,
         NEW x \in {0, 1, Absent, SETUP_MODE, USER_MODE, "absent", "valid", "modified"}
  PROVE  Item(v, x) \in Seq(Items)
<1>1. Item(v, x) \in Seq(Apart) BY PlainItem DEF Names, VolNames, NvNames, VendorNames
<1> QED BY <1>1, ApartItems

LEMMA VendorEnds ==
  ASSUME NEW v, v \notin VendorNames
  PROVE  VendorKeyIsModified \in Seq(Items) /\ Skips(VendorKeyIsModified, v)
<1> DEFINE a == Item("mVendorKeyState", "modified")
           b == Item("VendorKeysNv", "modified")
           c == Item("VendorKeys", "modified")
<1>1. a \in Seq(Items) /\ b \in Seq(Items) /\ c \in Seq(Items)
  BY VendorItems DEF VendorNames
<1>2. Skips(a, v) /\ Skips(b, v) /\ Skips(c, v) BY ItemEnds DEF VendorNames
<1>3. VendorKeyIsModified = IF vol.mVendorKeyState = "modified" THEN <<>> ELSE a \o b \o c
  BY DEF VendorKeyIsModified
<1> HIDE DEF a, b, c
<1>4. a \o b \in Seq(Items) /\ Skips(a \o b, v) BY <1>1, <1>2, Joined, JoinedEnds
<1>5. Skips(a \o b \o c, v) BY <1>1, <1>2, <1>4, JoinedEnds
<1>6. VendorKeyIsModified \in Seq(Items) BY VendorApart, ApartItems
<1> QED BY <1>3, <1>5, <1>6, NoneSkips

\* UpdatePlatformMode: the mode, and before the OS runs SecureBoot with it.
LEMMA ModeEnds ==
  ASSUME NEW mode \in {SETUP_MODE, USER_MODE}
  PROVE  /\ UpdatePlatformMode(mode) \in Seq(Items)
         /\ Sets(UpdatePlatformMode(mode), "mPlatformMode", mode)
         /\ phase # "runtime" => Sets(UpdatePlatformMode(mode), "SecureBoot",
                                      IF mode = USER_MODE THEN 1 ELSE 0)
         /\ phase = "runtime" => Skips(UpdatePlatformMode(mode), "SecureBoot")
         /\ \A v : v \notin ModeNames => Skips(UpdatePlatformMode(mode), v)
<1> DEFINE e == IF mode = USER_MODE THEN Item("SecureBootEnable", 1)
                ELSE IF nv.SecureBootEnable = Absent THEN <<>>
                ELSE Item("SecureBootEnable", Absent)
           on == IF mode = USER_MODE THEN 1 ELSE 0
           b == Item("SecureBoot", on)
           f == IF phase = "runtime" THEN <<>> ELSE b \o e
           a == Item("mPlatformMode", mode)
<1>1. UpdatePlatformMode(mode) = a \o f BY DEF UpdatePlatformMode
<1>2. a \in Seq(Items)
  <2>1. a \in Seq(Apart) BY PlainItem DEF Names, VolNames
  <2> QED BY <2>1, ApartItems
<1>3. b \in Seq(Items)
  <2>1. b \in Seq(Apart) BY PlainItem DEF Names, VolNames
  <2> QED BY <2>1, ApartItems
<1>4. e \in Seq(Items)
  <2>1. \A x \in {1, Absent} : Item("SecureBootEnable", x) \in Seq(Apart)
    BY PlainItem DEF Names, NvNames
  <2>2. e \in Seq(Apart) BY <2>1, NothingToDo
  <2> QED BY <2>2, ApartItems
<1>5. Sets(a, "mPlatformMode", mode) /\ \A v : v # "mPlatformMode" => Skips(a, v) BY ItemEnds
<1>6. Sets(b, "SecureBoot", on) /\ \A v : v # "SecureBoot" => Skips(b, v) BY ItemEnds
<1>7. \A v : v # "SecureBootEnable" => Skips(e, v) BY ItemEnds, NoneSkips
<1>8. f = IF phase = "runtime" THEN <<>> ELSE b \o e OBVIOUS
<1> HIDE DEF a, b, e, f, on
<1>9. f \in Seq(Items) BY <1>3, <1>4, <1>8, Joined, NothingToDo
<1>10. /\ phase # "runtime" => Sets(f, "SecureBoot", on)
       /\ phase = "runtime" => Skips(f, "SecureBoot")
       /\ \A v : v \notin {"SecureBoot", "SecureBootEnable"} => Skips(f, v)
  <2>1. CASE phase = "runtime" BY <2>1, <1>8, NoneSkips
  <2>2. CASE phase # "runtime"
    <3>1. Sets(b \o e, "SecureBoot", on) BY <1>3, <1>4, <1>6, <1>7, JoinedEnds
    <3>2. ASSUME NEW v, v \notin {"SecureBoot", "SecureBootEnable"} PROVE Skips(b \o e, v)
      BY <3>2, <1>3, <1>4, <1>6, <1>7, JoinedEnds
    <3> QED BY <2>2, <3>1, <3>2, <1>8
  <2> QED BY <2>1, <2>2
<1>11. a \o f \in Seq(Items) BY <1>2, <1>9, Joined
<1>12. Sets(a \o f, "mPlatformMode", mode) BY <1>2, <1>5, <1>9, <1>10, JoinedEnds
<1>13. phase # "runtime" => Sets(a \o f, "SecureBoot", on) BY <1>2, <1>5, <1>9, <1>10, JoinedEnds
<1>14. phase = "runtime" => Skips(a \o f, "SecureBoot") BY <1>2, <1>5, <1>9, <1>10, JoinedEnds
<1>15. ASSUME NEW v, v \notin ModeNames PROVE Skips(a \o f, v)
  BY <1>15, <1>2, <1>5, <1>9, <1>10, JoinedEnds DEF ModeNames
<1> QED BY <1>1, <1>11, <1>12, <1>13, <1>14, <1>15 DEF on

\* What AuthVariableLibInitialize makes of the mode and of SecureBoot; it leaves the
\* key variables alone.
LEMMA InitEnds ==
  ASSUME NEW n, NEW c,
         n.VendorKeysNv \in {0, 1, Absent, SETUP_MODE, USER_MODE, "absent", "valid", "modified"}
  PROVE  /\ Sets(InitWrites(n, c), "mPlatformMode",
                 IF Exists(n.PK) THEN USER_MODE ELSE SETUP_MODE)
         /\ Sets(InitWrites(n, c), "SecureBoot", IF Exists(n.PK) /\ c # 0 THEN 1 ELSE 0)
         /\ \A v \in Lists : Skips(InitWrites(n, c), v)
<1> DEFINE policy == IF c = 0 THEN 0 ELSE 1
           m == IF Exists(n.PK) THEN USER_MODE ELSE SETUP_MODE
           sb == IF Exists(n.PK) THEN policy ELSE 0
           mode == Item("mPlatformMode", m)
           enable == IF Exists(n.PK) /\ n.SecureBootEnable # policy
                     THEN Item("SecureBootEnable", policy) ELSE <<>>
           boot == Item("SecureBoot", sb)
           custom == Item("CustomMode", 0)
           cert == IF CleanCertsFromDb(n) # n.certdb
                   THEN Item("certdb", CleanCertsFromDb(n)) ELSE <<>>
           b == InitVendorKeys(n)
           Targets == Lists \cup {"mPlatformMode", "SecureBoot"}
<1>1. mode \in Seq(Items)
  <2>1. mode \in Seq(Apart) BY PlainItem DEF Names, VolNames
  <2> QED BY <2>1, ApartItems
<1>2. enable \in Seq(Items)
  <2>1. Item("SecureBootEnable", policy) \in Seq(Apart) BY PlainItem DEF Names, NvNames
  <2> QED BY <2>1, NothingToDo, ApartItems
<1>3. boot \in Seq(Items) /\ custom \in Seq(Items)
  <2>1. boot \in Seq(Apart) /\ custom \in Seq(Apart) BY PlainItem DEF Names, VolNames, NvNames
  <2> QED BY <2>1, ApartItems
<1>4. cert \in Seq(Items)
  <2>1. CleanCertsFromDb(n) # n.certdb => CleanCertsFromDb(n) = NoKey BY DEF CleanCertsFromDb
  <2>2. NoKey \in TypeOf("certdb") /\ "certdb" \in Names BY DEF TypeOf, Names, NvNames
  <2>3. Item("certdb", NoKey) \in Seq(Items) BY <2>2, ItemTyped
  <2> QED BY <2>1, <2>3, NothingToDo
<1>5. b \in Seq(Items) /\ \A v \in Targets : Skips(b, v)
  <2> DEFINE x == Item("mVendorKeyState", "valid")
             y == Item("VendorKeysNv", "valid")
             z == Item("VendorKeys", "valid")
             k == Item("mVendorKeyState", n.VendorKeysNv)
             l == Item("VendorKeys", n.VendorKeysNv)
  <2>1. /\ x \in Seq(Items) /\ y \in Seq(Items) /\ z \in Seq(Items)
        /\ k \in Seq(Items) /\ l \in Seq(Items)
    BY VendorItems DEF VendorNames
  <2>2. \A v \in Targets :
          Skips(x, v) /\ Skips(y, v) /\ Skips(z, v) /\ Skips(k, v) /\ Skips(l, v)
    BY ItemEnds DEF Lists
  <2>3. b = IF n.VendorKeysNv = "absent" THEN x \o y \o z ELSE k \o l BY DEF InitVendorKeys
  <2> HIDE DEF b, x, y, z, k, l, Targets
  <2>4. x \o y \in Seq(Items) /\ \A v \in Targets : Skips(x \o y, v)
    BY <2>1, <2>2, Joined, JoinedEnds
  <2>5. x \o y \o z \in Seq(Items) /\ \A v \in Targets : Skips(x \o y \o z, v)
    BY <2>1, <2>2, <2>4, Joined, JoinedEnds
  <2>6. k \o l \in Seq(Items) /\ \A v \in Targets : Skips(k \o l, v)
    BY <2>1, <2>2, Joined, JoinedEnds
  <2> QED BY <2>3, <2>5, <2>6
<1>6. Sets(mode, "mPlatformMode", m) /\ \A v : v # "mPlatformMode" => Skips(mode, v)
  BY ItemEnds
<1>7. \A v : v # "SecureBootEnable" => Skips(enable, v) BY ItemEnds, NoneSkips
<1>8. Sets(boot, "SecureBoot", sb) /\ \A v : v # "SecureBoot" => Skips(boot, v) BY ItemEnds
<1>9. \A v : v # "CustomMode" => Skips(custom, v) BY ItemEnds
<1>10. \A v : v # "certdb" => Skips(cert, v) BY ItemEnds, NoneSkips
<1>11. InitWrites(n, c) = mode \o enable \o boot \o custom \o cert \o b
  BY DEF InitWrites, InitMode
<1>12. sb = (IF Exists(n.PK) /\ c # 0 THEN 1 ELSE 0) OBVIOUS
<1> HIDE DEF mode, enable, boot, custom, cert, b, m, sb, policy
<1> DEFINE w2 == mode \o enable
           w3 == w2 \o boot
           w4 == w3 \o custom
           w5 == w4 \o cert
           w6 == w5 \o b
<1>13. /\ w2 \in Seq(Items) /\ Sets(w2, "mPlatformMode", m)
       /\ \A v \in Targets \ {"mPlatformMode"} : Skips(w2, v)
  BY <1>1, <1>2, <1>6, <1>7, Joined, JoinedEnds DEF Lists
<1> HIDE DEF w2
<1>14. /\ w3 \in Seq(Items) /\ Sets(w3, "mPlatformMode", m) /\ Sets(w3, "SecureBoot", sb)
       /\ \A v \in Lists : Skips(w3, v)
  BY <1>13, <1>3, <1>8, Joined, JoinedEnds DEF Lists
<1> HIDE DEF w3
<1>15. /\ w4 \in Seq(Items) /\ Sets(w4, "mPlatformMode", m) /\ Sets(w4, "SecureBoot", sb)
       /\ \A v \in Lists : Skips(w4, v)
  BY <1>14, <1>3, <1>9, Joined, JoinedEnds DEF Lists
<1> HIDE DEF w4
<1>16. /\ w5 \in Seq(Items) /\ Sets(w5, "mPlatformMode", m) /\ Sets(w5, "SecureBoot", sb)
       /\ \A v \in Lists : Skips(w5, v)
  <2>1. w5 \in Seq(Items) BY <1>15, <1>4, Joined
  <2>2. \A v \in Targets : Skips(cert, v) BY <1>10 DEF Lists
  <2>3. Sets(w5, "mPlatformMode", m) /\ Sets(w5, "SecureBoot", sb)
    BY <1>15, <1>4, <2>2, JoinedEnds
  <2>4. \A v \in Lists : Skips(w5, v) BY <1>15, <1>4, <2>2, JoinedEnds
  <2> QED BY <2>1, <2>3, <2>4
<1> HIDE DEF w5
<1>17. /\ Sets(w6, "mPlatformMode", m) /\ Sets(w6, "SecureBoot", sb)
       /\ \A v \in Lists : Skips(w6, v)
  BY <1>16, <1>5, JoinedEnds
<1>18. InitWrites(n, c) = w6 BY <1>11 DEF w2, w3, w4, w5
<1> HIDE DEF w6
<1> QED BY <1>12, <1>17, <1>18 DEF m

\* The handlers write the requested variable once, and of the others only those of
\* VendorKeyIsModified and of the mode.
LEMMA WriteEnds ==
  ASSUME Stored, NEW r \in Request
  PROVE  /\ Write(r) \in Seq(Items) /\ Sets(Write(r), r.var, Updated(nv[r.var], r))
         /\ \A v : v # r.var => Skips(Write(r), v)
BY WriteTyped, ItemEnds DEF Write

LEMMA ChangeEnds ==
  ASSUME NEW r
  PROVE  /\ ModeChange(r) \in Seq(Items)
         /\ \A v : v \notin ModeNames \/ r.var # "PK" => Skips(ModeChange(r), v)
<1>1. ModeChange(r) \in Seq(Items) BY ChangeApart, ApartItems
<1>2. CASE ModeChange(r) = <<>> BY <1>1, <1>2, NoneSkips
<1>3. CASE r.var = "PK" /\ \E mode \in {SETUP_MODE, USER_MODE} : ModeChange(r) = UpdatePlatformMode(mode)
  BY <1>1, <1>3, ModeEnds
<1> QED BY <1>2, <1>3 DEF ModeChange

LEMMA PkEnds ==
  ASSUME Stored, NEW r \in Request
  PROVE  /\ Sets(PkWrites(r), r.var, Updated(nv[r.var], r))
         /\ \A v : v \notin VendorNames \cup {r.var} =>
              /\ Skips(ModeChange(r), v) => Skips(PkWrites(r), v)
              /\ \A x : Sets(ModeChange(r), v, x) => Sets(PkWrites(r), v, x)
<1> DEFINE p == IF Bypass(r) /\ (vol.mPlatformMode # SETUP_MODE
                                 \/ (PcdRequireSelfSignedPk /\ r.var = "PK"))
                THEN VendorKeyIsModified ELSE <<>>
           w == Write(r)
           m == ModeChange(r)
           u == Updated(nv[r.var], r)
<1>1. w \in Seq(Items) /\ Sets(w, r.var, u) /\ \A v : v # r.var => Skips(w, v) BY WriteEnds
<1>2. r.var \in Lists BY DEF AllRequests, Request, Lists
<1>3. p \in Seq(Items) /\ \A v : v \notin VendorNames => Skips(p, v)
  <2>1. VendorKeyIsModified \in Seq(Items) BY VendorApart, ApartItems
  <2> QED BY <2>1, VendorEnds, NoneSkips, NothingToDo
<1>4. m \in Seq(Items) /\ Skips(m, r.var) BY <1>2, ChangeEnds DEF ModeNames, Lists
<1>5. PkWrites(r) = w \o p \o m BY DEF PkWrites
<1>6. r.var \notin VendorNames BY <1>2 DEF Lists, VendorNames
<1> HIDE DEF w, p, m, u
<1>7. w \o p \in Seq(Items) BY <1>1, <1>3, Joined
<1>8. Sets(w \o p, r.var, u) BY <1>1, <1>3, <1>6, JoinedEnds
<1>9. Sets(w \o p \o m, r.var, u) BY <1>4, <1>7, <1>8, JoinedEnds
<1>10. ASSUME NEW v, v \notin VendorNames \cup {r.var}
       PROVE  /\ Skips(m, v) => Skips(w \o p \o m, v)
              /\ \A x : Sets(m, v, x) => Sets(w \o p \o m, v, x)
  <2>1. Skips(w \o p, v) BY <1>1, <1>3, <1>10, JoinedEnds
  <2> QED BY <2>1, <1>4, <1>7, JoinedEnds
<1> QED BY <1>5, <1>9, <1>10 DEF m, u

LEMMA KekEnds ==
  ASSUME Stored, NEW r \in Request
  PROVE  /\ Sets(KekWrites(r), r.var, Updated(nv[r.var], r))
         /\ \A v : v \notin VendorNames \cup {r.var} => Skips(KekWrites(r), v)
<1> DEFINE p == IF ~KekNeedsAuth /\ vol.mPlatformMode # SETUP_MODE
                THEN VendorKeyIsModified ELSE <<>>
           w == Write(r)
           u == Updated(nv[r.var], r)
<1>1. w \in Seq(Items) /\ Sets(w, r.var, u) /\ \A v : v # r.var => Skips(w, v) BY WriteEnds
<1>2. r.var \notin VendorNames BY DEF AllRequests, Request, VendorNames
<1>3. p \in Seq(Items) /\ \A v : v \notin VendorNames => Skips(p, v)
  <2>1. VendorKeyIsModified \in Seq(Items) BY VendorApart, ApartItems
  <2> QED BY <2>1, VendorEnds, NoneSkips, NothingToDo
<1>4. KekWrites(r) = w \o p BY DEF KekWrites
<1> HIDE DEF w, p, u
<1>5. Sets(w \o p, r.var, u) BY <1>1, <1>2, <1>3, JoinedEnds
<1>6. \A v : v \notin VendorNames \cup {r.var} => Skips(w \o p, v) BY <1>1, <1>3, JoinedEnds
<1> QED BY <1>4, <1>5, <1>6 DEF u

LEMMA PrivEnds ==
  ASSUME Stored, NEW r \in Request, r.var = "priv"
  PROVE  /\ Sets(PrivWrites(r), "priv", Updated(nv.priv, r))
         /\ \A v : v \notin {"priv", "certdb"} => Skips(PrivWrites(r), v)
<1> DEFINE w == Write(r)
           u == Updated(nv.priv, r)
           a == Item("certdb", NoKey)
           b == Item("certdb", r.signer)
<1>1. w \in Seq(Items) /\ Sets(w, "priv", u) /\ \A v : v # "priv" => Skips(w, v) BY WriteEnds
<1>2. a \in Seq(Items) /\ b \in Seq(Items)
  <2>1. r.signer \in Keys \cup {NoKey} BY DEF AllRequests, Request
  <2>2. "certdb" \in Names /\ TypeOf("certdb") = Keys \cup {NoKey} BY DEF Names, NvNames, TypeOf
  <2> QED BY <2>1, <2>2, ItemTyped
<1>3. \A v : v # "certdb" => Skips(a, v) /\ Skips(b, v) BY ItemEnds
<1>4. PrivWrites(r) = w \/ PrivWrites(r) = w \o a \/ PrivWrites(r) = b \o w
  BY DEF PrivWrites, VerifiedWrites, InsertCertsFirst
<1> HIDE DEF w, u, a, b
<1>5. /\ Sets(w \o a, "priv", u) /\ Sets(b \o w, "priv", u)
      /\ \A v : v \notin {"priv", "certdb"} => Skips(w \o a, v) /\ Skips(b \o w, v)
  BY <1>1, <1>2, <1>3, JoinedEnds
<1> QED BY <1>1, <1>4, <1>5 DEF u

-----------------------------------------------------------------------------
(***************************************************************************)
(* The time stamps and the modes: what the writes of a signed request make *)
(* of each key variable is not older than what it holds, and what any      *)
(* writes make of PK, the mode and SecureBoot goes together.  Neither is   *)
(* visible in the state alone: a request writes PK first, the mode after.  *)
(***************************************************************************)
Forward(old, new, r) ==
  Exists(old) /\ new # old =>
    IF r.append THEN new.ts >= old.ts /\ \A k \in Keys : new.sigs[k] >= old.sigs[k]
    ELSE r.ts > old.ts /\ (Exists(new) => new.ts = r.ts)

TimeInv ==
  signed => \A v \in Lists : \E y : Will(todo, v, y, nv[v]) /\ Forward(nv[v], y, req)

Settled(pk, mode, sb, ph, c) ==
  /\ mode = IF Exists(pk) THEN USER_MODE ELSE SETUP_MODE
  /\ ph # "runtime" => /\ sb = 1 => Exists(pk)
                       /\ Exists(pk) /\ c # 0 => sb = 1

ModeInv ==
  ~failed /\ phase # "dead" =>
    \E pk, mode, sb :
      /\ Will(todo, "PK", pk, nv.PK) /\ Will(todo, "mPlatformMode", mode, vol.mPlatformMode)
      /\ Will(todo, "SecureBoot", sb, vol.SecureBoot)
      /\ Settled(pk, mode, sb, phase, cfg)

LEMMA WillNow == ASSUME NEW v, NEW x, NEW now PROVE Will(<<>>, v, x, now) <=> x = now
BY DEF Will, Sets, Skips

LEMMA ForwardUpdated ==
  ASSUME NEW old \in List, NEW r \in Request, Fresh(old, r)
  PROVE  Forward(old, Updated(old, r), r)
<1> DEFINE u == Updated(old, r)
<1>0. r.append \in BOOLEAN /\ r.ts \in Nat /\ old.ts \in Nat /\ old.sigs \in [Keys -> Nat]
  <2>1. r.append \in BOOLEAN /\ r.ts \in Times BY DEF Request
  <2>2. old.ts \in Times \cup {0} /\ old.sigs \in [Keys -> Nat] BY DEF List, None
  <2>3. Times \subseteq Nat BY AuthVariableAssumption
  <2>4. 0 \in Nat OBVIOUS
  <2> QED BY <2>1, <2>2, <2>3, <2>4
<1>1. CASE r.append
  <2> DEFINE new == Filtered(old, r)
  <2>1. new \in [Keys -> Nat] BY FilteredTyped
  <2>2. u.ts = Later(old.ts, r.ts) /\ \A k \in Keys : u.sigs[k] = old.sigs[k] + new[k]
    BY <1>1 DEF Updated
  <2>3. u.ts >= old.ts BY <2>2, <1>0 DEF Later
  <2> HIDE DEF new, u
  <2>4. \A k \in Keys : u.sigs[k] >= old.sigs[k] BY <2>1, <2>2, <1>0
  <2>5. Forward(old, u, r) BY <1>1, <2>3, <2>4 DEF Forward
  <2> QED BY <2>5 DEF u
<1>2. CASE ~r.append /\ Listed(r) = {}
  <2>1. u = Empty BY <1>2 DEF Updated
  <2>2. Exists(old) => r.ts > old.ts BY <1>2 DEF Fresh
  <2> QED BY <1>2, <2>1, <2>2, EmptyList DEF Forward
<1>3. CASE ~r.append /\ Listed(r) # {}
  <2>1. u.ts = r.ts BY <1>3 DEF Updated
  <2>2. Exists(old) => r.ts > old.ts BY <1>3 DEF Fresh
  <2> QED BY <1>3, <2>1, <2>2 DEF Forward
<1> QED BY <1>0, <1>1, <1>2, <1>3

\* A request taken for its signature, by any of the three paths.
LEMMA SignedForward ==
  ASSUME Stored, NEW r \in Request, NEW p \in {"pk", "kek", "priv"},
         p = "priv" <=> r.var = "priv", Accepts(p, r), SignedPath(p, r), NEW v \in Lists
  PROVE  \E y : Will(Writes(p, r), v, y, nv[v]) /\ Forward(nv[v], y, r)
<1> DEFINE u == Updated(nv[r.var], r)
<1>0. r.var \in Lists /\ nv[r.var] \in List
  <2>1. r.var \in Lists BY DEF AllRequests, Request, Lists
  <2>2. \A w \in Lists : nv[w] \in List BY DEF Lists, Stored, TypeOf, NvNames
  <2> QED BY <2>1, <2>2
<1>1. CASE v = r.var
  <2>1. Sets(Writes(p, r), r.var, u)
    <3>1. CASE p = "pk" BY <3>1, PkEnds DEF Writes
    <3>2. CASE p = "kek" BY <3>2, KekEnds DEF Writes
    <3>3. CASE p = "priv" BY <3>3, PrivEnds DEF Writes
    <3> QED BY <3>1, <3>2, <3>3
  <2>2. Fresh(nv[r.var], r)
    <3>1. CASE p = "pk" BY <3>1 DEF Accepts, SignedPath, PkAccepts, Verified
    <3>2. CASE p = "kek" BY <3>2 DEF Accepts, SignedPath, KekAccepts, Verified
    <3>3. CASE p = "priv" BY <3>3 DEF Accepts, SignedPath, PrivAccepts, Verified
    <3> QED BY <3>1, <3>2, <3>3
  <2>3. Forward(nv[r.var], u, r) BY <2>2, <1>0, ForwardUpdated
  <2> HIDE DEF u
  <2> QED BY <1>1, <2>1, <2>3 DEF Will
<1>2. CASE v # r.var
  <2>0. v \notin VendorNames \cup ModeNames /\ v # "certdb"
    BY DEF Lists, VendorNames, ModeNames
  <2>1. Skips(Writes(p, r), v)
    <3>1. CASE p = "pk"
      <4>1. Skips(ModeChange(r), v) BY <2>0, ChangeEnds
      <4> QED BY <3>1, <4>1, <1>2, <2>0, PkEnds DEF Writes
    <3>2. CASE p = "kek" BY <3>2, <1>2, <2>0, KekEnds DEF Writes
    <3>3. CASE p = "priv" BY <3>3, <1>2, <2>0, PrivEnds DEF Writes
    <3> QED BY <3>1, <3>2, <3>3
  <2>2. Forward(nv[v], nv[v], r) BY DEF Forward
  <2> QED BY <2>1, <2>2 DEF Will
<1> QED BY <1>1, <1>2

\* Nothing of PK, the mode and SecureBoot is written.
LEMMA ModeUntouched ==
  ASSUME ModeInv, todo = <<>>, phase # "dead", UNCHANGED <<nv, vol, cfg, failed>>,
         phase' \in {phase, "runtime"},
         \A v \in {"PK", "mPlatformMode", "SecureBoot"} : Skips(todo', v)
  PROVE  ModeInv'
<1> SUFFICES ASSUME ~failed', phase' # "dead" PROVE ModeInv' BY DEF ModeInv
<1>1. PICK pk, mode, sb :
        /\ Will(<<>>, "PK", pk, nv.PK) /\ Will(<<>>, "mPlatformMode", mode, vol.mPlatformMode)
        /\ Will(<<>>, "SecureBoot", sb, vol.SecureBoot) /\ Settled(pk, mode, sb, phase, cfg)
  BY DEF ModeInv
<1>2. pk = nv.PK /\ mode = vol.mPlatformMode /\ sb = vol.SecureBoot BY <1>1, WillNow
<1>3. Settled(nv'.PK, vol'.mPlatformMode, vol'.SecureBoot, phase', cfg') BY <1>1, <1>2 DEF Settled, Exists
<1>4. /\ Will(todo', "PK", nv'.PK, nv'.PK)
      /\ Will(todo', "mPlatformMode", vol'.mPlatformMode, vol'.mPlatformMode)
      /\ Will(todo', "SecureBoot", vol'.SecureBoot, vol'.SecureBoot)
  BY DEF Will
<1> QED BY <1>3, <1>4 DEF ModeInv

LEMMA ModeNow ==
  ASSUME ModeInv, Idle, ~failed
  PROVE  Settled(nv.PK, vol.mPlatformMode, vol.SecureBoot, phase, cfg)
<1>1. PICK pk, mode, sb :
        /\ Will(<<>>, "PK", pk, nv.PK) /\ Will(<<>>, "mPlatformMode", mode, vol.mPlatformMode)
        /\ Will(<<>>, "SecureBoot", sb, vol.SecureBoot) /\ Settled(pk, mode, sb, phase, cfg)
  BY DEF ModeInv, Idle
<1>2. pk = nv.PK /\ mode = vol.mPlatformMode /\ sb = vol.SecureBoot BY <1>1, WillNow
<1> QED BY <1>1, <1>2

\* PK written with a payload exists, without one it does not.
LEMMA PkUpdated ==
  ASSUME NEW r \in AllRequests, r.var = "PK", NEW old
  PROVE  Exists(Updated(old, r)) <=> Listed(r) # {}
<1>0. ~r.append BY DEF AllRequests, Request
<1>1. CASE Listed(r) = {}
  <2>1. Updated(old, r) = Empty BY <1>0, <1>1 DEF Updated
  <2> QED BY <1>1, <2>1, EmptyList
<1>2. CASE Listed(r) # {}
  <2>1. PICK k \in Keys : r.payload[k] > 0 BY <1>2 DEF Listed
  <2>3. Updated(old, r).sigs[k] = r.payload[k] BY <1>0, <1>2 DEF Updated
  <2>4. Exists(Updated(old, r)) BY <2>1, <2>3 DEF Exists
  <2> QED BY <1>2, <2>4
<1> QED BY <1>1, <1>2

\* ProcessVarWithPk, for PK.
LEMMA PkMode ==
  ASSUME Stored, ModeInv, Idle, NEW r \in AllRequests, r.var = "PK", PkAccepts(r),
         todo' = PkWrites(r), UNCHANGED <<nv, vol, phase, cfg, failed>>
  PROVE  ModeInv'
<1> SUFFICES ASSUME ~failed PROVE ModeInv' BY DEF ModeInv
<1> DEFINE u == Updated(nv.PK, r)
           m == IF Listed(r) # {} THEN USER_MODE ELSE SETUP_MODE
           on == IF m = USER_MODE THEN 1 ELSE 0
<1>0. r \in Request BY RequestFacts
<1>1. Settled(nv.PK, vol.mPlatformMode, vol.SecureBoot, phase, cfg) BY ModeNow
<1>2. Exists(u) <=> Listed(r) # {} BY PkUpdated
<1>3. Writable(r) BY DEF PkAccepts, Verified
<1>4. Will(todo', "PK", u, nv'.PK) BY <1>0, PkEnds DEF Will
<1>5. {"mPlatformMode", "SecureBoot"} \cap (VendorNames \cup {r.var}) = {} BY DEF VendorNames
<1> HIDE DEF u
<1>6. CASE vol.mPlatformMode # m
  <2>1. ModeChange(r) = UpdatePlatformMode(m) BY <1>1, <1>6 DEF ModeChange, Settled
  <2>2. m \in {SETUP_MODE, USER_MODE} OBVIOUS
  <2> HIDE DEF m
  <2>3. Sets(ModeChange(r), "mPlatformMode", m) BY <2>1, <2>2, ModeEnds
  <2>4. Sets(todo', "mPlatformMode", m) BY <2>3, <1>5, <1>0, PkEnds
  <2>5. CASE phase # "runtime"
    <3>1. Sets(ModeChange(r), "SecureBoot", on) BY <2>1, <2>2, <2>5, ModeEnds
    <3>2. Sets(todo', "SecureBoot", on) BY <3>1, <1>5, <1>0, PkEnds
    <3>3. Settled(u, m, on, phase', cfg') BY <1>2 DEF Settled, m, USER_MODE, SETUP_MODE
    <3> HIDE DEF on
    <3> QED BY <1>4, <2>4, <3>2, <3>3 DEF ModeInv, Will
  <2>6. CASE phase = "runtime"
    <3>1. Skips(ModeChange(r), "SecureBoot") BY <2>1, <2>2, <2>6, ModeEnds
    <3>2. Skips(todo', "SecureBoot") BY <3>1, <1>5, <1>0, PkEnds
    <3>3. Settled(u, m, vol'.SecureBoot, phase', cfg') BY <1>2, <2>6 DEF Settled, m
    <3> QED BY <1>4, <2>4, <3>2, <3>3 DEF ModeInv, Will
  <2> QED BY <2>5, <2>6
<1>7. CASE vol.mPlatformMode = m
  <2>1. Listed(r) # {} /\ Exists(nv.PK)
    BY <1>1, <1>3, <1>7 DEF Settled, Writable, USER_MODE, SETUP_MODE
  <2>2. ModeChange(r) = <<>> BY <1>7, <2>1 DEF ModeChange, USER_MODE, SETUP_MODE
  <2>3. \A v : Skips(ModeChange(r), v) BY <2>2, NoneSkips
  <2>4. Skips(todo', "mPlatformMode") /\ Skips(todo', "SecureBoot") BY <2>3, <1>5, <1>0, PkEnds
  <2>5. Settled(u, vol'.mPlatformMode, vol'.SecureBoot, phase', cfg') BY <1>1, <1>2, <2>1 DEF Settled
  <2> HIDE DEF m
  <2> QED BY <1>4, <2>4, <2>5 DEF ModeInv, Will
<1> QED BY <1>6, <1>7

-----------------------------------------------------------------------------
FullInv == AuthInv /\ TimeInv /\ ModeInv

\* AuthVariableLibInitialize has run its course when its writes are made.
LEMMA StartModes ==
  ASSUME Stored, NEW c, NEW t, t = InitWrites(nv, c)
  PROVE  \E pk, mode, sb :
           /\ Will(t, "PK", pk, nv.PK)
           /\ \A now : Will(t, "mPlatformMode", mode, now) /\ Will(t, "SecureBoot", sb, now)
           /\ \A ph : Settled(pk, mode, sb, ph, c)
<1> DEFINE m == IF Exists(nv.PK) THEN USER_MODE ELSE SETUP_MODE
           sb == IF Exists(nv.PK) /\ c # 0 THEN 1 ELSE 0
<1>1. nv.VendorKeysNv \in {0, 1, Absent, SETUP_MODE, USER_MODE, "absent", "valid", "modified"}
  BY DEF Stored, TypeOf, NvNames
<1>2. /\ Sets(t, "mPlatformMode", m) /\ Sets(t, "SecureBoot", sb) /\ Skips(t, "PK")
  BY <1>1, InitEnds DEF Lists
<1>3. \A ph : Settled(nv.PK, m, sb, ph, c) BY DEF Settled
<1> HIDE DEF m, sb
<1> QED BY <1>2, <1>3 DEF Will

LEMMA FullInit == Init => FullInv
<1> SUFFICES ASSUME Init PROVE FullInv
  OBVIOUS
<1>1. AuthInv BY AuthInit
<1>2. TimeInv BY DEF Init, TimeInv
<1>3. Stored /\ todo = InitWrites(nv, cfg) BY <1>1 DEF AuthInv, StoreInv, Init
<1>4. ModeInv BY <1>3, StartModes DEF ModeInv
<1> QED BY <1>1, <1>2, <1>4 DEF FullInv

LEMMA FullSubmit ==
  ASSUME FullInv, NEW r \in Requests, Submit(r)
  PROVE  TimeInv' /\ ModeInv'
<1> DEFINE p == FirstPath(r)
<1>0. /\ Idle /\ todo = <<>> /\ phase # "dead"
      /\ UNCHANGED <<nv, vol, phase, cfg, failed>>
  BY DEF Submit, Idle
<1>1. r \in AllRequests /\ r \in Request /\ Stored /\ ModeInv /\ TimeInv
  BY AuthVariableAssumption, RequestFacts DEF FullInv, AuthInv, StoreInv
<1>2. p \in {"pk", "kek", "priv"} /\ (p = "priv" <=> r.var = "priv") BY DEF FirstPath
<1>3. CASE ~Accepts(p, r)
  <2>1. UNCHANGED <<todo, req, signed>> BY <1>3 DEF Submit, reqVars
  <2>2. TimeInv' BY <1>0, <1>1, <2>1 DEF TimeInv
  <2>3. ModeInv' BY <1>0, <1>1, <2>1, NoneSkips, ModeUntouched
  <2> QED BY <2>2, <2>3
<1>4. CASE Accepts(p, r)
  <2>1. todo' = Writes(p, r) /\ req' = r /\ signed' = SignedPath(p, r) BY <1>4 DEF Submit
  <2>2. TimeInv'
    <3> SUFFICES ASSUME SignedPath(p, r), NEW v \in Lists
                 PROVE  \E y : Will(todo', v, y, nv'[v]) /\ Forward(nv'[v], y, req')
      BY <2>1 DEF TimeInv
    <3> HIDE DEF p
    <3>1. \E y : Will(Writes(p, r), v, y, nv[v]) /\ Forward(nv[v], y, r)
      BY <1>1, <1>2, <1>4, SignedForward
    <3> QED BY <3>1, <2>1, <1>0
  <2>3. CASE r.var = "PK"
    <3>1. p = "pk" BY <2>3 DEF FirstPath
    <3>2. PkAccepts(r) /\ todo' = PkWrites(r) BY <1>4, <2>1, <3>1 DEF Accepts, Writes
    <3>3. ModeInv' BY <1>0, <1>1, <2>3, <3>2, PkMode
    <3> QED BY <2>2, <3>3
  <2>4. CASE r.var # "PK"
    <3>0. r.var \in {"KEK", "db", "priv"} BY <1>1, <2>4 DEF AllRequests, Request
    <3>1. ASSUME NEW v \in {"PK", "mPlatformMode", "SecureBoot"} PROVE Skips(todo', v)
      <4>0. v \notin VendorNames \cup {r.var} /\ v \notin {"priv", "certdb"}
        BY <3>0 DEF VendorNames
      <4> HIDE DEF p
      <4>1. CASE p = "pk"
        <5>1. Skips(ModeChange(r), v) BY <2>4, ChangeEnds
        <5> QED BY <5>1, <4>0, <4>1, <1>1, <2>1, PkEnds DEF Writes
      <4>2. CASE p = "kek" BY <4>0, <4>2, <1>1, <2>1, KekEnds DEF Writes
      <4>3. CASE p = "priv" BY <4>0, <4>3, <1>1, <1>2, <2>1, PrivEnds DEF Writes
      <4> QED BY <4>1, <4>2, <4>3, <1>2
    <3>2. ModeInv' BY <3>1, <1>0, <1>1, ModeUntouched
    <3> QED BY <2>2, <3>2
  <2> QED BY <2>3, <2>4
<1> QED BY <1>3, <1>4

\* One write: what each variable will hold stays the same.
LEMMA FullApply ==
  ASSUME FullInv, Apply
  PROVE  /\ TimeInv' /\ ModeInv'
         /\ \A v \in Lists : signed => Forward(nv[v], nv'[v], req)
<1> DEFINE i == Head(todo)
<1>0. /\ todo # <<>> /\ todo' = Tail(todo) /\ failed' = failed /\ cfg' = cfg
      /\ \/ UNCHANGED <<phase, req, signed>>
         \/ signed' = FALSE /\ phase' = (IF phase = "init" THEN "boot" ELSE phase)
  BY DEF Apply, NoRequest, reqVars
<1>1. todo \in Seq(Items) /\ Stored /\ TimeInv /\ ModeInv BY DEF FullInv, AuthInv, StoreInv
<1>2. i \in Items BY <1>0, <1>1, Tailed
<1>3. i.v \in Names BY <1>2, ItemFacts
<1>4. IF i.v \in VolNames THEN vol' = [vol EXCEPT ![i.v] = i.x] /\ nv' = nv
      ELSE nv' = [nv EXCEPT ![i.v] = i.x] /\ vol' = vol
  BY <1>1 DEF Apply, Stored
<1> HIDE DEF i
<1>5. \A v \in NvNames : nv'[v] = IF i.v = v THEN i.x ELSE nv[v]
  BY <1>1, <1>3, <1>4 DEF Stored, NvNames, VolNames, Names
<1>6. \A v \in VolNames : vol'[v] = IF i.v = v THEN i.x ELSE vol[v]
  BY <1>1, <1>3, <1>4 DEF Stored, NvNames, VolNames, Names
<1>7. \A v, x, now : Will(todo, v, x, now) =>
        Will(todo', v, x, IF i.v = v THEN i.x ELSE now) /\ (i.v = v => i.x = x)
  BY <1>0, <1>1, WillTail DEF i
<1>8. Lists \subseteq NvNames BY DEF Lists, NvNames
<1>9. ASSUME signed, NEW v \in Lists
      PROVE  /\ \E y : Will(todo', v, y, nv'[v]) /\ Forward(nv'[v], y, req)
             /\ Forward(nv[v], nv'[v], req)
  <2>1. PICK y : Will(todo, v, y, nv[v]) /\ Forward(nv[v], y, req) BY <1>1, <1>9 DEF TimeInv
  <2>2. Will(todo', v, y, IF i.v = v THEN i.x ELSE nv[v]) /\ (i.v = v => i.x = y)
    BY <2>1, <1>7
  <2>3. nv'[v] = IF i.v = v THEN i.x ELSE nv[v] BY <1>5, <1>8
  <2>4. Will(todo', v, y, nv'[v]) BY <2>2, <2>3
  <2>5. CASE i.v = v
    <3>1. nv'[v] = y BY <2>2, <2>3, <2>5
    <3>2. Forward(y, y, req) BY DEF Forward
    <3> QED BY <2>1, <2>4, <3>1, <3>2
  <2>6. CASE i.v # v
    <3>1. nv'[v] = nv[v] BY <2>3, <2>6
    <3>2. Forward(nv[v], nv[v], req) BY DEF Forward
    <3> QED BY <2>1, <2>4, <3>1, <3>2
  <2> QED BY <2>5, <2>6
<1>10. TimeInv'
  <2> SUFFICES ASSUME signed', NEW v \in Lists
               PROVE  \E y : Will(todo', v, y, nv'[v]) /\ Forward(nv'[v], y, req')
    BY DEF TimeInv
  <2>1. signed /\ req' = req BY <1>0
  <2> QED BY <2>1, <1>9
<1>11. ModeInv'
  <2> SUFFICES ASSUME ~failed', phase' # "dead" PROVE ModeInv' BY DEF ModeInv
  <2>1. ~failed /\ phase # "dead" /\ (phase' = "runtime" <=> phase = "runtime") BY <1>0
  <2>2. PICK pk, mode, sb :
          /\ Will(todo, "PK", pk, nv.PK) /\ Will(todo, "mPlatformMode", mode, vol.mPlatformMode)
          /\ Will(todo, "SecureBoot", sb, vol.SecureBoot) /\ Settled(pk, mode, sb, phase, cfg)
    BY <2>1, <1>1 DEF ModeInv
  <2>3. Will(todo', "PK", pk, nv'.PK) BY <2>2, <1>5, <1>7 DEF NvNames
  <2>4. Will(todo', "mPlatformMode", mode, vol'.mPlatformMode) BY <2>2, <1>6, <1>7 DEF VolNames
  <2>5. Will(todo', "SecureBoot", sb, vol'.SecureBoot) BY <2>2, <1>6, <1>7 DEF VolNames
  <2>6. Settled(pk, mode, sb, phase', cfg') BY <2>1, <2>2, <1>0 DEF Settled
  <2> QED BY <2>3, <2>4, <2>5, <2>6 DEF ModeInv
<1> QED BY <1>9, <1>10, <1>11

LEMMA FullRefuse ==
  ASSUME FullInv, Refuse
  PROVE  TimeInv' /\ ModeInv'
<1>0. UNCHANGED <<nv, vol, cfg>> BY DEF Refuse
<1>1. Stored /\ req \in Requests \cup {NoReq} /\ Alike(buffer, req) /\ TimeInv /\ ModeInv
  BY DEF FullInv, AuthInv, StoreInv
<1>2. CASE phase = "init" /\ UNCHANGED <<phase, todo, req, failed, signed>>
  BY <1>0, <1>1, <1>2 DEF TimeInv, ModeInv
<1>3. CASE phase' = "dead" /\ todo' = <<>> /\ UNCHANGED <<req, signed>>
  <2>1. \A v : Will(todo', v, nv'[v], nv'[v]) BY <1>3, WillNow
  <2>2. \A v : Forward(nv'[v], nv'[v], req') BY DEF Forward
  <2> QED BY <1>3, <2>1, <2>2 DEF TimeInv, ModeInv
<1>4. CASE failed' = TRUE /\ signed' = FALSE BY <1>4 DEF TimeInv, ModeInv
<1>5. CASE /\ failed' = TRUE /\ req.var = "db" /\ KekAccepts(buffer) /\ todo' = KekWrites(buffer)
           /\ signed' = SignedPath("kek", buffer) /\ req' = req
  <2>1. /\ buffer \in Request /\ buffer.var = "db" /\ buffer.append = req.append
        /\ buffer.ts = req.ts
    BY <1>1, <1>5 DEF NoReq, Alike
  <2>2. Accepts("kek", buffer) /\ Writes("kek", buffer) = KekWrites(buffer)
    BY <1>5 DEF Accepts, Writes
  <2>3. ASSUME SignedPath("kek", buffer), NEW v \in Lists
        PROVE  \E y : Will(Writes("kek", buffer), v, y, nv[v]) /\ Forward(nv[v], y, req)
    <3>1. PICK y : Will(Writes("kek", buffer), v, y, nv[v]) /\ Forward(nv[v], y, buffer)
      BY <1>1, <2>1, <2>2, <2>3, SignedForward
    <3>2. Forward(nv[v], y, req) BY <2>1, <3>1 DEF Forward
    <3> QED BY <3>1, <3>2
  <2>4. TimeInv' BY <1>0, <1>5, <2>2, <2>3 DEF TimeInv
  <2> QED BY <1>5, <2>4 DEF ModeInv
<1> QED BY <1>2, <1>3, <1>4, <1>5 DEF Refuse, NoRequest, reqVars

LEMMA FullStep ==
  FullInv /\ [Next]_vars =>
    FullInv' /\ (\A v \in Lists : signed => Forward(nv[v], nv'[v], req))
<1> SUFFICES ASSUME FullInv, [Next]_vars
             PROVE  /\ TimeInv' /\ ModeInv'
                    /\ \A v \in Lists : signed => Forward(nv[v], nv'[v], req)
  BY AuthStep DEF FullInv
<1>1. Stored /\ TimeInv /\ ModeInv BY DEF FullInv, AuthInv, StoreInv
<1>2. nv' = nv => \A v \in Lists : Forward(nv[v], nv'[v], req) BY DEF Forward
<1>3. ASSUME NEW r \in Requests, Submit(r) PROVE TimeInv' /\ ModeInv' /\ nv' = nv
  BY <1>3, FullSubmit DEF Submit
<1>4. ASSUME NEW v \in {"CustomMode", "SecureBootEnable"}, NEW x \in 0..1, SetMode(v, x)
      PROVE  TimeInv' /\ ModeInv' /\ nv' = nv
  <2>0. /\ todo = <<>> /\ phase = "boot" /\ UNCHANGED <<nv, vol, phase, req, cfg, failed, signed>>
        /\ todo' = Item(v, x) \/ todo' = <<>>
    BY <1>4 DEF SetMode, reqVars
  <2>1. \A w : w # v => Skips(todo', w) BY <2>0, ItemEnds, NoneSkips
  <2>2. ModeInv' BY <1>1, <2>0, <2>1, ModeUntouched
  <2>3. ASSUME NEW w \in Lists PROVE Will(todo', w, nv'[w], nv'[w]) /\ Forward(nv'[w], nv'[w], req')
    BY <2>1 DEF Will, Forward, Lists
  <2>4. TimeInv' BY <2>3 DEF TimeInv
  <2> QED BY <2>0, <2>2, <2>4
<1>5. CASE Apply BY <1>5, FullApply
<1>6. CASE Refuse
  <2>1. nv' = nv BY <1>6 DEF Refuse
  <2> QED BY <1>2, <1>6, <2>1, FullRefuse
<1>7. CASE ExitBootServices \/ Buttons
  <2>0. /\ todo' = <<>> /\ todo = <<>> /\ phase = "boot" /\ phase' \in {phase, "runtime"}
        /\ UNCHANGED <<nv, vol, req, cfg, failed, signed>>
    BY <1>7 DEF ExitBootServices, Buttons, reqVars
  <2>1. ModeInv' BY <1>1, <2>0, NoneSkips, ModeUntouched
  <2>2. TimeInv' BY <1>1, <2>0 DEF TimeInv
  <2> QED BY <1>2, <2>0, <2>1, <2>2
<1>8. CASE Reset
  <2>0. PICK c \in Configs : cfg' = c /\ todo' = InitWrites(nv, c) BY <1>8 DEF Reset, Start
  <2>1. nv' = nv /\ signed' = FALSE BY <1>8 DEF Reset, Start, NoRequest
  <2>2. TimeInv' BY <2>1 DEF TimeInv
  <2>3. ModeInv' BY <1>1, <2>0, <2>1, StartModes DEF ModeInv
  <2> QED BY <1>2, <2>1, <2>2, <2>3
<1>9. CASE UNCHANGED vars
  <2>1. TimeInv' /\ ModeInv' /\ nv' = nv BY <1>1, <1>9 DEF vars, reqVars, TimeInv, ModeInv
  <2> QED BY <1>2, <2>1
<1> QED BY <1>2, <1>3, <1>4, <1>5, <1>6, <1>7, <1>8, <1>9 DEF Next

LEMMA FullInvariant == Spec => []FullInv
<1>1. FullInv /\ [Next]_vars => FullInv' BY FullStep
<1> QED BY FullInit, <1>1, PTL DEF Spec

-----------------------------------------------------------------------------
\* For every set of keys, requests and configurations: between requests, and until
\* a write is refused, the platform is in user mode exactly when there is a PK, and
\* SecureBoot follows PK and the boot configuration; wherever power was lost
\* between the write of PK and that of the mode (UpdatePlatformMode).
THEOREM ModesFollowPk == Spec => []ModesMatch
<1>1. FullInv => ModesMatch
  <2> SUFFICES ASSUME FullInv, Idle, ~failed
               PROVE  /\ vol.mPlatformMode = USER_MODE <=> Exists(nv.PK)
                      /\ phase = "boot" =>
                           /\ vol.SecureBoot = 1 => Exists(nv.PK)
                           /\ Exists(nv.PK) /\ cfg # 0 => vol.SecureBoot = 1
    BY DEF ModesMatch, ModeMatchesPk, SecureBootMatches
  <2>1. Settled(nv.PK, vol.mPlatformMode, vol.SecureBoot, phase, cfg)
    BY ModeNow DEF FullInv
  <2> QED BY <2>1 DEF Settled, USER_MODE, SETUP_MODE
<1> QED BY <1>1, FullInvariant, PTL

\* For every set of keys, requests and times: while a variable exists, what replaces
\* or deletes it for its signature has a later time stamp, and what is appended for
\* its signature takes nothing away and does not set the time stamp back; also when a
\* request for db whose first write was refused is taken a second time, by KEK.
THEOREM NoReplay == Spec => TimeForward
<1>1. FullInv /\ [Next]_vars =>
        [\A v \in Lists :
           (signed /\ Exists(nv[v]) /\ nv'[v] # nv[v]) =>
             IF req.append
             THEN nv'[v].ts >= nv[v].ts /\ \A k \in Keys : nv'[v].sigs[k] >= nv[v].sigs[k]
             ELSE req.ts > nv[v].ts /\ (Exists(nv'[v]) => nv'[v].ts = req.ts)]_vars
  BY FullStep DEF Forward
<1> QED BY <1>1, FullInvariant, PTL DEF Spec, TimeForward

-----------------------------------------------------------------------------
(***************************************************************************)
(* Appends.  The first write of a request may be refused after the filter  *)
(* has rewritten the buffer, and the second try starts from there: what    *)
(* saves the entries that were there is that the variable is looked at     *)
(* again, and what saves the new ones is that the filtered list is at the  *)
(* start of the buffer.                                                    *)
(***************************************************************************)
Appends == req.append /\ req.fits /\ req.var \in {"KEK", "db"}

\* s keeps what there was and has no new entry more often than m.
Took(s, was, m) == \A k \in Keys : IF was[k] > 0 THEN s[k] = was[k] ELSE s[k] <= m[k]
Most == IF path = "pk" THEN req.payload ELSE buffer.payload

\* The new entries of s are those the request lists.
Complete(s, was, r) == \A k \in Keys : was[k] = 0 => (s[k] > 0 <=> k \in Listed(r))

\* The buffer has every new entry at least as often as the request.
Rewrote ==
  \A k \in Keys : /\ before[k] \in Nat /\ buffer.payload[k] \in Nat
                  /\ before[k] = 0 => buffer.payload[k] >= req.payload[k]
                  /\ buffer.payload[k] > 0 => req.payload[k] > 0

AppendInv ==
  /\ phase \in {"init", "dead"} => req = NoReq
  /\ Appends => /\ Rewrote /\ Took(nv[req.var].sigs, before, Most)
               /\ \E y : /\ Will(todo, req.var, y, nv[req.var])
                         /\ Took(y.sigs, before, Most) /\ Complete(y.sigs, before, req)

\* What AppendsOnce says of a step.
AppendsStep ==
  Appends => /\ Took(nv'[req.var].sigs, before, Most)
             /\ Succeeds => Complete(nv'[req.var].sigs, before, req)

LEMMA AppendIdle ==
  ASSUME AppendInv, UNCHANGED <<nv, phase, todo, reqVars>>
  PROVE  AppendInv'
BY DEF AppendInv, Appends, Rewrote, Most, reqVars

LEMMA NoAppend == ASSUME req' = NoReq PROVE AppendInv'
BY DEF AppendInv, Appends, NoReq

\* What a list is after an append to it that is filtered.
LEMMA AppendUpdated ==
  ASSUME NEW r \in Request, r.append, r.fits, r.var \in {"KEK", "db"}, NEW old \in List,
         NEW k \in Keys
  PROVE  Updated(old, r).sigs[k] = IF old.sigs[k] > 0 THEN old.sigs[k] ELSE r.payload[k]
<1>1. old.sigs \in [Keys -> Nat] /\ r.payload \in [Keys -> Nat] BY DEF List, Request
<1>2. Updated(old, r).sigs[k] = old.sigs[k] + Filtered(old, r)[k] BY DEF Updated
<1>3. Filtered(old, r)[k] = IF old.sigs[k] > 0 THEN 0 ELSE r.payload[k] BY DEF Filtered, Has
<1> QED BY <1>1, <1>2, <1>3

LEMMA AppendSubmit ==
  ASSUME AuthInv, AppendInv, NEW r \in Requests, Submit(r)
  PROVE  AppendInv'
<1>0. r \in Request /\ Stored BY RequestFacts DEF AuthInv, StoreInv
<1>1. CASE ~Accepts(FirstPath(r), r) BY <1>1, AppendIdle DEF Submit
<1>2. CASE Accepts(FirstPath(r), r)
  <2>1. /\ todo' = Writes(FirstPath(r), r) /\ req' = r /\ path' = FirstPath(r)
        /\ buffer' \in IF FirstPath(r) = "pk" THEN Rewritten(nv[r.var], r) ELSE {r}
        /\ before' = nv[r.var].sigs /\ UNCHANGED <<nv, phase>> /\ phase \in {"boot", "runtime"}
    BY <1>2 DEF Submit, Idle
  <2> SUFFICES ASSUME r.append, r.fits, r.var \in {"KEK", "db"}
               PROVE  /\ Rewrote' /\ Took(nv[r.var].sigs, before', Most')
                      /\ \E y : /\ Will(todo', r.var, y, nv[r.var])
                                /\ Took(y.sigs, before', Most') /\ Complete(y.sigs, before', r)
    BY <2>1 DEF AppendInv, Appends
  <2> DEFINE old == nv[r.var]
             u == Updated(old, r)
  <2>2. old \in List BY <1>0 DEF Stored, TypeOf, NvNames
  <2>3. old.sigs \in [Keys -> Nat] /\ r.payload \in [Keys -> Nat] BY <1>0, <2>2 DEF List, Request
  <2>4. \A k \in Keys : u.sigs[k] = IF old.sigs[k] > 0 THEN old.sigs[k] ELSE r.payload[k]
    BY <1>0, <2>2, AppendUpdated
  <2>5. /\ path' # "pk" => buffer' = r
        /\ \A k \in Keys : /\ buffer'.payload[k] \in Nat
                           /\ buffer'.payload[k] >= Filtered(old, r)[k]
                           /\ buffer'.payload[k] > 0 => r.payload[k] > 0
    BY <1>0, <2>1, BufferFacts
  <2>6. \A k \in Keys : old.sigs[k] = 0 => Filtered(old, r)[k] = r.payload[k]
    BY DEF Filtered, Has
  <2>7. Sets(todo', r.var, u)
    <3>1. FirstPath(r) \in {"pk", "kek"} BY DEF FirstPath
    <3> QED BY <3>1, <1>0, <2>1, PkEnds, KekEnds DEF Writes
  <2> HIDE DEF old, u
  <2>8. Rewrote' BY <2>1, <2>3, <2>5, <2>6 DEF Rewrote, old
  <2>9. before' = old.sigs /\ req' = r /\ Most' = r.payload BY <2>1, <2>5 DEF old, Most
  <2>10. Took(old.sigs, before', Most') BY <2>3, <2>9 DEF Took
  <2>11. Took(u.sigs, before', Most') /\ Complete(u.sigs, before', r)
    BY <2>3, <2>4, <2>9 DEF Took, Complete, Listed
  <2> QED BY <2>7, <2>8, <2>10, <2>11 DEF Will, old
<1> QED BY <1>1, <1>2

LEMMA AppendApply ==
  ASSUME AuthInv, AppendInv, Apply
  PROVE  AppendInv' /\ AppendsStep
<1> DEFINE i == Head(todo)
           v == req.var
<1>0. /\ todo # <<>> /\ todo' = Tail(todo)
      /\ \/ UNCHANGED <<phase, reqVars>>
         \/ req' = NoReq
  BY DEF Apply, NoRequest
<1>1. todo \in Seq(Items) /\ Stored BY DEF AuthInv, StoreInv
<1>2. i.v \in Names BY <1>0, <1>1, Tailed, ItemFacts
<1>3. IF i.v \in VolNames THEN vol' = [vol EXCEPT ![i.v] = i.x] /\ nv' = nv
      ELSE nv' = [nv EXCEPT ![i.v] = i.x] /\ vol' = vol
  BY <1>1 DEF Apply, Stored
<1>4. ASSUME Appends
      PROVE  /\ AppendsStep
             /\ Took(nv'[v].sigs, before, Most)
             /\ \E y : /\ Will(todo', v, y, nv'[v])
                       /\ Took(y.sigs, before, Most) /\ Complete(y.sigs, before, req)
  <2>1. PICK y : /\ Will(todo, v, y, nv[v])
                 /\ Took(y.sigs, before, Most) /\ Complete(y.sigs, before, req)
    BY <1>4 DEF AppendInv
  <2>2. v \in {"KEK", "db"} BY <1>4 DEF Appends
  <2> HIDE DEF i
  <2>3. nv'[v] = IF i.v = v THEN i.x ELSE nv[v]
    BY <2>2, <1>1, <1>2, <1>3 DEF Stored, NvNames, VolNames, Names
  <2>4. Will(todo', v, y, nv'[v]) /\ (i.v = v => i.x = y)
    BY <1>0, <1>1, <2>1, <2>3, WillTail DEF i
  <2>5. Took(nv'[v].sigs, before, Most)
    <3>1. CASE i.v = v BY <2>1, <2>3, <2>4, <3>1
    <3>2. CASE i.v # v BY <1>4, <2>3, <3>2 DEF AppendInv
    <3> QED BY <3>1, <3>2
  <2>6. ASSUME Succeeds PROVE Complete(nv'[v].sigs, before, req)
    <3>1. y = nv'[v] BY <2>4, <2>6, WillNow DEF Succeeds
    <3> QED BY <2>1, <3>1
  <2> QED BY <2>1, <2>4, <2>5, <2>6 DEF AppendsStep
<1> HIDE DEF i
<1>5. CASE req' = NoReq BY <1>4, <1>5, NoAppend DEF AppendsStep
<1>6. CASE UNCHANGED <<phase, reqVars>>
  <2>1. /\ UNCHANGED <<phase, req, path, buffer, before>> BY <1>6 DEF reqVars
  <2>2. Most' = Most BY <2>1 DEF Most
  <2>3. AppendInv' BY <1>4, <2>1, <2>2 DEF AppendInv, Appends, Rewrote
  <2> QED BY <1>4, <2>3 DEF AppendsStep
<1> QED BY <1>0, <1>5, <1>6

LEMMA AppendRefuse ==
  ASSUME AuthInv, AppendInv, Refuse
  PROVE  AppendInv'
<1>0. Stored /\ req \in Requests \cup {NoReq} /\ Alike(buffer, req) /\ nv' = nv
  BY DEF AuthInv, StoreInv, Refuse
<1>1. CASE phase = "init" /\ UNCHANGED reqVars
  BY <1>1, NoAppend DEF AppendInv, reqVars
<1>2. CASE NoRequest BY <1>2, NoAppend DEF NoRequest
<1>3. CASE /\ req.var = "db" /\ path = "pk" /\ path' = "kek" /\ todo' = KekWrites(buffer)
           /\ UNCHANGED <<phase, req, buffer, before>>
  <2>1. /\ buffer \in Request /\ buffer.var = "db" /\ buffer.append = req.append
        /\ buffer.fits = req.fits
    BY <1>0, <1>3 DEF NoReq, Alike
  <2> SUFFICES ASSUME req.append, req.fits
               PROVE  /\ Rewrote' /\ Took(nv.db.sigs, before, Most')
                      /\ \E y : /\ Will(todo', "db", y, nv.db)
                                /\ Took(y.sigs, before, Most') /\ Complete(y.sigs, before, req)
    BY <1>0, <1>3 DEF AppendInv, Appends
  <2> DEFINE old == nv.db
             u == Updated(old, buffer)
  <2>2. old \in List BY <1>0 DEF Stored, TypeOf, NvNames
  <2>3. old.sigs \in [Keys -> Nat] /\ buffer.payload \in [Keys -> Nat] /\ req.payload \in [Keys -> Nat]
    <3>1. req # NoReq BY <1>3 DEF NoReq
    <3>2. req \in Request BY <1>0, <3>1, RequestFacts
    <3> QED BY <2>1, <2>2, <3>2 DEF List, Request
  <2>4. \A k \in Keys : u.sigs[k] = IF old.sigs[k] > 0 THEN old.sigs[k] ELSE buffer.payload[k]
    BY <2>1, <2>2, AppendUpdated
  <2>5. Rewrote /\ Took(old.sigs, before, req.payload)
    BY <1>3 DEF AppendInv, Appends, Most
  <2>6. Sets(todo', "db", u) BY <1>0, <1>3, <2>1, KekEnds
  <2>7. Most' = buffer.payload BY <1>3 DEF Most
  <2> HIDE DEF old, u
  <2>8. Took(old.sigs, before, Most') BY <2>3, <2>5, <2>7 DEF Took, Rewrote
  <2>9. Took(u.sigs, before, Most')
    BY <2>3, <2>4, <2>7, <2>8 DEF Took
  <2>10. Complete(u.sigs, before, req)
    BY <2>3, <2>4, <2>5 DEF Complete, Took, Rewrote, Listed
  <2>11. Rewrote' BY <1>3, <2>5 DEF Rewrote
  <2> QED BY <2>6, <2>8, <2>9, <2>10, <2>11 DEF Will, old
<1> QED BY <1>1, <1>2, <1>3 DEF Refuse

LEMMA AppendStep ==
  ASSUME AuthInv, AppendInv, [Next]_vars
  PROVE  AppendInv' /\ AppendsStep
<1>0. Stored BY DEF AuthInv, StoreInv
<1>1. nv' = nv /\ ~Succeeds => AppendsStep BY DEF AppendInv, AppendsStep
<1>2. ASSUME NEW r \in Requests, Submit(r) PROVE AppendInv' /\ AppendsStep
  <2>1. nv' = nv /\ ~Succeeds BY <1>2 DEF Submit, Idle, Succeeds
  <2> QED BY <1>1, <1>2, <2>1, AppendSubmit
<1>3. ASSUME NEW v \in {"CustomMode", "SecureBootEnable"}, NEW x \in 0..1, SetMode(v, x)
      PROVE  AppendInv' /\ AppendsStep
  <2>1. /\ todo = <<>> /\ UNCHANGED <<nv, phase, reqVars>> /\ ~Succeeds
        /\ todo' = Item(v, x) \/ todo' = <<>>
    BY <1>3 DEF SetMode, Succeeds
  <2>2. \A w : w # v => Skips(todo', w) BY <2>1, ItemEnds, NoneSkips
  <2>3. ASSUME Appends, NEW y, Will(todo, req.var, y, nv[req.var])
        PROVE  Will(todo', req.var, y, nv[req.var])
    <3>1. y = nv[req.var] BY <2>1, <2>3, WillNow
    <3>2. Skips(todo', req.var) BY <2>2, <2>3 DEF Appends
    <3> QED BY <3>1, <3>2 DEF Will
  <2>4. /\ UNCHANGED <<req, path, buffer, before>> BY <2>1 DEF reqVars
  <2>5. AppendInv' BY <2>1, <2>3, <2>4 DEF AppendInv, Appends, Rewrote, Most
  <2> QED BY <1>1, <2>1, <2>5
<1>4. CASE Apply BY <1>4, AppendApply
<1>5. CASE Refuse
  <2>1. nv' = nv /\ ~Succeeds BY <1>5, AuthVariableAssumption DEF Refuse, Succeeds
  <2> QED BY <1>1, <1>5, <2>1, AppendRefuse
<1>6. CASE ExitBootServices \/ Buttons
  <2>1. /\ nv' = nv /\ ~Succeeds /\ todo' = todo /\ phase = "boot" /\ phase' \in {"boot", "runtime"}
        /\ UNCHANGED <<req, path, buffer, before>>
    BY <1>6 DEF ExitBootServices, Buttons, Succeeds, reqVars
  <2>2. AppendInv' BY <2>1 DEF AppendInv, Appends, Rewrote, Most
  <2> QED BY <1>1, <2>1, <2>2
<1>7. CASE Reset
  <2>1. PICK c \in Configs : todo' = InitWrites(nv, c) BY <1>7 DEF Reset, Start
  <2>2. nv.VendorKeysNv \in {0, 1, Absent, SETUP_MODE, USER_MODE, "absent", "valid", "modified"}
    BY <1>0 DEF Stored, TypeOf, NvNames
  <2>3. \E x : Sets(todo', "mPlatformMode", x) BY <2>1, <2>2, InitEnds
  <2>4. todo' # <<>> BY <2>3 DEF Sets
  <2>5. nv' = nv /\ req' = NoReq /\ ~Succeeds
    BY <1>7, <2>4 DEF Reset, Start, NoRequest, Succeeds
  <2> QED BY <1>1, <2>5, NoAppend
<1>8. CASE UNCHANGED vars
  <2>1. UNCHANGED <<nv, phase, todo, reqVars>> /\ ~Succeeds BY <1>8 DEF vars, Succeeds
  <2> QED BY <1>1, <2>1, AppendIdle
<1> QED BY <1>2, <1>3, <1>4, <1>5, <1>6, <1>7, <1>8 DEF Next

\* For every set of keys and requests, and with any writes refused: an append to KEK
\* or db that FilterSignatureList had room to filter leaves every entry that was there
\* as often as it was, brings in no new one more often than its payload (the rewritten
\* one, when ProcessVarWithKek tries a second time) and misses none.
THEOREM EntriesOnce == Spec => AppendsOnce
<1>1. Init => AppendInv BY DEF Init, AppendInv, Appends, NoReq
<1>2. AuthInv /\ AppendInv /\ [Next]_vars => AppendInv' BY AppendStep
<1>3. AuthInv /\ AppendInv /\ [Next]_vars =>
        [req.append /\ req.fits /\ req.var \in {"KEK", "db"} =>
           \A k \in Keys :
             LET now == nv'[req.var].sigs[k] IN
             IF before[k] > 0 THEN now = before[k]
             ELSE /\ now <= IF path = "pk" THEN req.payload[k] ELSE buffer.payload[k]
                  /\ Succeeds => (now > 0 <=> k \in Listed(req))]_vars
  <2> SUFFICES ASSUME AuthInv, AppendInv, [Next]_vars, Appends, NEW k \in Keys
               PROVE  IF before[k] > 0 THEN nv'[req.var].sigs[k] = before[k]
                      ELSE /\ nv'[req.var].sigs[k] <= IF path = "pk" THEN req.payload[k] ELSE buffer.payload[k]
                           /\ Succeeds => (nv'[req.var].sigs[k] > 0 <=> k \in Listed(req))
    BY DEF Appends
  <2>1. AppendsStep /\ Rewrote BY AppendStep DEF AppendInv
  <2> QED BY <2>1 DEF AppendsStep, Took, Complete, Most, Rewrote
<1> QED BY <1>1, <1>2, <1>3, AuthInvariant, PTL DEF Spec, AppendsOnce
=============================================================================
