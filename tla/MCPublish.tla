------------------------------ MODULE MCPublish ------------------------------
(* Documents for model-checking Publish: all of them different, or several *)
(* uploads of one document, under one title or under two.                  *)
EXTENDS Publish, TLC

First == CHOOSE u \in Uploads : TRUE

(* Every upload its own. *)
Own == [u \in Uploads |-> u]
(* All the same. *)
Same == [u \in Uploads |-> First]

(* An envelope a client posts for the first document. *)
PostedFirst == {<<First, First>>}
PostedNone == {}
=============================================================================
