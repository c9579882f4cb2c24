------------------------------ MODULE MCUploads ------------------------------
(***************************************************************************)
(* An avatar with every constraint, a document under an alias and a field  *)
(* that the handler does not declare.                                      *)
(***************************************************************************)
EXTENDS Uploads

P(name, alias, max, min, types, files, required) ==
  [name |-> name, alias |-> alias, max_size |-> max, min_size |-> min,
   types |-> types, max_files |-> files, required |-> required]

MCParams ==
  {P("avatar", {}, {2}, {1}, {{<<"image", "*">>}}, {1}, TRUE),
   P("doc", {"document"}, {3}, {}, {{<<"text", "plain">>}}, {}, FALSE)}

MCNames == {"avatar", "doc", "document"}
MCTypes == {<<"image", "png">>, <<"text", "plain">>}
MCHinted == {"doc"}
=============================================================================
