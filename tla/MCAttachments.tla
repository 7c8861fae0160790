--------------------------- MODULE MCAttachments ----------------------------
(* Instances of Attachments for TLC: two environments, an obstacle in a      *)
(* cache and an analytic one, and two links that can carry a payload.        *)
EXTENDS Attachments, TLC

MCNameLists == {<<>>, <<"box">>, <<"ball", "box">>}
MCNoLists   == {<<>>}
MCContacts  == {{"hand"}}
=============================================================================
