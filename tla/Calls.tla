------------------------------- MODULE Calls -------------------------------
(***************************************************************************)
(* HandlerCall under names of its own, for modules that have it beside     *)
(* other components.                                                       *)
(***************************************************************************)
CONSTANTS
  Structs, Kebab,   \* of Binding
  CallRoutes,       \* what a program may register
  CallRequests,     \* what a client may send
  Results           \* what a handler may return

VARIABLES route, callPhase, received, call, returned, raised, wire

Call == INSTANCE HandlerCall WITH
  Routes <- CallRoutes, Requests <- CallRequests, phase <- callPhase, request <- received

\* Signatures are those Python admits, and an empty list fits every schema.
ASSUME HandlerCallAssumption == Call!SignaturesFit /\ Call!EmptyListsFit

\* Every parameter of a running handler has the value the request carries under
\* the parameter's own key in its own source, of the declared type, or its default,
\* whichever injector or Rust plan bound it (compile_argument_injector,
\* _compile_rust_arg_bindings), but for the departures HandlerCall names.
ParametersAreOwn == Call!ParametersAreOwn

\* The executors specialised at registration (_compile_handler_executor) answer as
\* serialize_response does, errors included, but for the two cases HandlerCall
\* names and a QuerySet evaluated on the event loop, which is answered 500.
SpecialisedAnswersAlike == Call!SpecialisedAnswersAlike

\* A request that cannot be bound is the client's fault and answered 422; a value
\* that does not fit the declared answer is the server's and answered 500, though
\* both are found by the same msgspec conversions (handle_exception); but for a
\* File, whose failure to open is 404, 403 or 500 by what open() raised.
BlameIsRight == Call!BlameIsRight
=============================================================================
