----------------------------- MODULE MCDelivery -----------------------------
(* Documents for model-checking Delivery: a plain one, and one for each way  *)
(* in which the metadata helpers can change what they are given.             *)
EXTENDS Delivery, TLC

b == "blank"

MCChars == {"blank", "slash", "underscore", "semicolon", "x", "X", "y"}
MCLower == [c \in MCChars |-> IF c = "X" THEN "x" ELSE c]
MCOctetStream == <<"y", "slash", "y">>
MCAlias == (<<"x", "slash", "y">> :> <<"x", "slash", "x">>)

Plain == [content_type |-> <<"x", "slash", "x">>, size_bytes |-> 1, title |-> <<b, "x", "y">>,
          description |-> <<>>, tags |-> <<>>]

MCDocuments ==
  {Plain,
   [Plain EXCEPT !.title = <<"x", "slash", b, "y", "y">>],
   [Plain EXCEPT !.title = <<b, "slash", b>>, !.content_type = <<"X", "slash", "y", b>>],
   [Plain EXCEPT !.content_type = <<"x", "slash", "y", b, "y", "semicolon", "y">>],
   [Plain EXCEPT !.content_type = <<"x", "slash", b, "semicolon", "y">>],
   [Plain EXCEPT !.title = <<b>>],
   [Plain EXCEPT !.description = <<"x">>, !.tags = <<<<b>>, <<"x", b, "y">>, <<"y">>>>],
   [Plain EXCEPT !.description = <<"x", "y", b, "y", "x">>, !.tags = <<<<"x", "y">>, <<"x", "y">>>>]}
=============================================================================
