----------------------------- MODULE MCRunPlanning -----------------------------
(* Names, a roll number and two phone numbers, for TLC.                    *)
EXTENDS RunPlanning, TLC

CONSTANTS n, m, r, x, y, v, w, g

Found(id, words, matches, value, confidence, page, mandatory) ==
    [id |-> id, words |-> words, matches |-> matches, value |-> value,
     confidence |-> confidence, page |-> page, boxed |-> TRUE, mandatory |-> mandatory]

const_Ids == {n, m, r, x, y}
const_Values == {v, w}
const_Tokens == {"name", "roll", "number", "roll number", "phone", "contact"}
\* Of the two ids of phone numbers the code can read one.
const_IdTokens == (n :> {"name"}) @@ (m :> {"name"}) @@ (r :> {"roll"}) @@ (x :> {"phone"}) @@ (y :> {})
const_Fields == {
    Found(n, {"name"}, {"name"}, v, 80, 1, TRUE),
    Found(m, {"name"}, {"name"}, w, 80, 1, TRUE),
    Found(r, {"roll", "number", "roll number"}, {"identifier"}, w, 75, 2, TRUE),
    Found(x, {"contact"}, {"phone"}, v, 75, 1, FALSE),
    Found(y, {"contact"}, {"phone"}, w, 75, 1, FALSE)}
const_Descriptions == {
    [source |-> "person_name", intent |-> "identity", important |-> TRUE],
    [source |-> "identifier", intent |-> "academic", important |-> FALSE]}
const_Families == {"generic", "tax"}
const_Registries == {<<>>, <<"entra_verified_id", "local_mock">>}
const_GroupIds == {n, g}
const_GroupTypes == {"person_name", "academic"}

=============================================================================
