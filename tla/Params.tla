------------------------------- MODULE Params -------------------------------
(***************************************************************************)
(* The parameters of a handler and the markers that say where they come    *)
(* from (params.py): a source and an alias.  What else a marker is given,  *)
(* a default among it, documents the parameter and binds nothing.          *)
(*                                                                         *)
(* A parameter is [name, alias, kind, mark, type, nullable, default]: kind *)
(* is "pos" or "kw", mark the source of its Param marker, "depends" or     *)
(* "none", alias "" when there is none, nullable says that the annotation  *)
(* admits None, and default is "none", "value", or "marker" when the Param *)
(* marker itself stands as the default.                                    *)
(***************************************************************************)
Param(p, source, alias) == [p EXCEPT !.mark = source, !.alias = alias]
QueryParam(p, alias) == Param(p, "query", alias)
PathParam(p, alias) == Param(p, "path", alias)
HeaderParam(p, alias) == Param(p, "header", alias)
CookieParam(p, alias) == Param(p, "cookie", alias)
BodyParam(p, alias) == Param(p, "body", alias)
FormParam(p, alias) == Param(p, "form", alias)
FileParam(p, alias) == Param(p, "file", alias)
Depends(p) == [p EXCEPT !.mark = "depends"]

Parameter ==
  [name : STRING, alias : STRING, kind : {"pos", "kw"}, type : STRING, nullable : BOOLEAN,
   mark : {"none", "query", "path", "header", "cookie", "body", "form", "file", "depends"},
   default : {"none", "value", "marker"}]
=============================================================================
