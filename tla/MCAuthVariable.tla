--------------------------- MODULE MCAuthVariable ---------------------------
(* Small instances of AuthVariable: two certificates, two time stamps.       *)
EXTENDS AuthVariable
CONSTANTS K1, K2

\* The payload that lists K1 a times and K2 b times.
Times12(a, b) == [k \in Keys |-> IF k = K1 THEN a ELSE b]

\* Requests for v, signed by anybody or nobody.
Some(v, payload, append, t) ==
  {[var |-> v, payload |-> payload, append |-> append, ts |-> t, signer |-> s,
    wellFormed |-> TRUE, fits |-> TRUE] : s \in Keys \cup {NoKey}}
Unsealed(reqs) == {r \in reqs : r.signer = NoKey}
Malformed == {[r EXCEPT !.wellFormed = FALSE] :
                r \in Unsealed(Some("PK", Times12(1, 0), FALSE, 1)
                               \cup Some("db", Times12(1, 0), TRUE, 1))}
Unfiltered == {[r EXCEPT !.fits = FALSE] : r \in Unsealed(Some("db", Times12(1, 0), TRUE, 1))}

EnrolK1(v, t) == Some(v, Times12(1, 0), FALSE, t)
EnrolK2(v, t) == Some(v, Times12(0, 1), FALSE, t)
Delete(v) == Some(v, Nothing, FALSE, 2)
MostRequests ==
  EnrolK1("PK", 1) \cup EnrolK2("PK", 2) \cup Delete("PK")
  \cup EnrolK2("KEK", 1) \cup Delete("KEK")
  \cup EnrolK1("db", 2) \cup Delete("db") \cup Some("db", Times12(1, 2), TRUE, 1)
  \cup Unfiltered
  \cup {r \in EnrolK1("priv", 1) \cup EnrolK1("priv", 2) : r.signer # K2}
  \cup Delete("priv") \cup Malformed
DbRequests == EnrolK1("PK", 1) \cup EnrolK1("db", 1)
TwoTimes  == 1..2
TwoConfigs == {0, 1}
OnConfig  == {1}
=============================================================================
