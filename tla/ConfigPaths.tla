---------------------------- MODULE ConfigPaths -----------------------------
(***************************************************************************)
(* Configuration documents as values, and as maps from paths. A JSON value *)
(* is an object [dict |-> f] with f from keys to values, a string          *)
(* [str |-> s], a ciphertext [cipher |-> s] or anything else               *)
(* [other |-> s].                                                          *)
(*                                                                         *)
(* Code: _deep_merge, _encrypt_payload and _decrypt_payload in             *)
(* api/services/team_config_service.py (and the same loop in               *)
(* get_dynamic_config_path), api/core/security.py.                         *)
(***************************************************************************)
EXTENDS Naturals, Sequences

IsDict(v) == "dict" \in DOMAIN v
IsStr(v) == "str" \in DOMAIN v
IsCipher(v) == "cipher" \in DOMAIN v

Dict(f) == [dict |-> f]
Keys(v) == DOMAIN v.dict

(* Mutant of BothObjects: nested objects are replaced, never merged.       *)
BothObjectsShallow(d1, d2, k) == FALSE

BothObjects(d1, d2, k) == k \in Keys(d1) /\ IsDict(d1.dict[k]) /\ IsDict(d2.dict[k])

(* One call of _deep_merge: key by key, two objects are handed to Op, and  *)
(* of anything else the second is taken.                                   *)
MergeKeys(Op(_, _), d1, d2) ==
  Dict([k \in Keys(d1) \cup Keys(d2) |->
          IF k \notin Keys(d2) THEN d1.dict[k]
          ELSE IF BothObjects(d1, d2, k) THEN Op(d1.dict[k], d2.dict[k])
          ELSE d2.dict[k]])

(* One of SENSITIVE_KEYS stands for the five.                              *)
SensitiveKeys == {"openai_api_key"}

(* encrypt_value, decrypt_value: an empty string is left as it is.         *)
EncryptValue(v) == IF IsStr(v) /\ v.str # "" THEN [cipher |-> v.str] ELSE v
DecryptValue(v) == IF IsCipher(v) THEN [str |-> v.cipher] ELSE v

OnSensitive(Op(_), d) ==
  Dict([k \in Keys(d) |-> IF k \in SensitiveKeys THEN Op(d.dict[k]) ELSE d.dict[k]])

EncryptPayload(d) == OnSensitive(EncryptValue, d)
DecryptPayload(d) == OnSensitive(DecryptValue, d)

-----------------------------------------------------------------------------
(* The reference: a document is a map from paths to values, and a merge    *)
(* overlays the second map on the first.                                   *)

Absent == [absent |-> "absent"]

Child(v, k) == IF IsDict(v) /\ k \in Keys(v) THEN v.dict[k] ELSE Absent

(* What is found on the way from d along p.                                *)
Walk(d, p) ==
  LET at[i \in 0..Len(p)] == IF i = 0 THEN d ELSE Child(at[i - 1], p[i])
  IN  at

(* The value at a path; an object only says that it is one.                *)
Value(d, p) ==
  LET v == Walk(d, p)[Len(p)] IN IF IsDict(v) THEN Dict(<<>>) ELSE v

(* A value on the way to p that is no object hides what is at p.           *)
Hides(d, p) ==
  \E i \in 1..(Len(p) - 1) : ~ IsDict(Walk(d, p)[i]) /\ Walk(d, p)[i] # Absent

Overlaid(d1, d2, p) ==
  IF Value(d2, p) # Absent THEN Value(d2, p)
  ELSE IF Hides(d2, p) THEN Absent ELSE Value(d1, p)

(* The second document wins path by path, and the rest stays.              *)
IsOverlay(d, d1, d2, P) == \A p \in P : Value(d, p) = Overlaid(d1, d2, p)
=============================================================================
