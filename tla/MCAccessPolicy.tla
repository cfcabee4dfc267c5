--------------------------- MODULE MCAccessPolicy ---------------------------
(***************************************************************************)
(* A small instance of AccessPolicy: two keys, two JWKS URLs.              *)
(***************************************************************************)
EXTENDS AccessPolicy, TLC

CONSTANTS t1, t2, k1, k2, jwks, moved, wellknown, staff

Signed(kid, key, exp, claims) ==
    [alg |-> "RS256", kid |-> kid, key |-> key, exp |-> exp, claims |-> claims]
Shared(key, exp, claims) ==
    [alg |-> "HS256", kid |-> NoKid, key |-> key, exp |-> exp, claims |-> claims]
Asking(token, role) == [token |-> token, role |-> role, action |-> "review"]

SignedRequest == [r \in {"signed"} |-> Asking(Signed(k1, k1, 9, {staff}), DefaultRole)]
OtherRequest ==
    [shared  |-> Asking(Shared(Secret, 1, {"admin", "analyst"}), DefaultRole),
     bare    |-> Asking(Signed(NoKid, k1, 9, {staff}), DefaultRole),
     admin   |-> Asking(NoToken, "admin"),
     analyst |-> Asking(NoToken, "analyst")]

StaffRole == [g \in {staff} |-> "admin"]

Setting(tokens, keys, on, open, audit) ==
    [tokens |-> tokens, keys |-> keys, engine |-> on, failOpen |-> open, audit |-> audit]
KeysOnly == {Setting(TRUE, Discovery, FALSE, FALSE, FALSE)}
EngineToo ==
    {Setting(tokens, jwks, on, open, audit) :
        tokens \in BOOLEAN, on \in BOOLEAN, open \in BOOLEAN, audit \in BOOLEAN}
At(uri, here, there) ==
    [uri |-> uri, keys |-> [u \in JwksUrls |-> IF u = jwks THEN here ELSE there]]
\* A rotation with an overlap, one without, and a move to a URL of its own.
Rotation == {At(jwks, {k1}, {k2}), At(jwks, {k1, k2}, {k2}), At(jwks, {k2}, {k2}), At(moved, {k1}, {k2})}
OneKey == {At(jwks, {k1}, {})}
ThreadSymmetry == Permutations(Threads)
=============================================================================
