------------------------------ MODULE Outcomes ------------------------------
(***************************************************************************)
(* What becomes of one call of the database, and of an error, on the way   *)
(* to the caller: the two transports (core/src/transport.ts), the typed    *)
(* errors over SQLSTATE (errors.ts), and their HTTP status                 *)
(* (http-errors.ts).                                                       *)
(*                                                                         *)
(* A promise is settled as [ok, value, error].  An error is named by its   *)
(* class; while it is the driver's own it is its code, "" for one without  *)
(* (a connection reset).                                                   *)
(***************************************************************************)

CONSTANT None   \* null and undefined

Resolved(v) == [ok |-> TRUE, value |-> v, error |-> None]
Rejected(e) == [ok |-> FALSE, value |-> None, error |-> e]

-----------------------------------------------------------------------------
(* errors.ts and http-errors.ts *)

\* Fault: a connection that may not execute the function reads as a refusal.
TypedErrorWiring(code) ==
    CASE code \in {"P0001", "42501", "PGRST106", "PGRST202"} -> "AuthzDenied"
      [] code \in {"P0002", "P0003"} -> "AuthzState"
      [] code = "23505" -> "AuthzConflict"
      [] code \in {"23503", "23514", "22P02"} -> "AuthzUsage"
      [] OTHER -> "Error"

\* The typed error over a failure of the database.  What has no known code is
\* rethrown untouched.
TypedError(code) ==
    CASE code = "P0001" -> "AuthzDenied"
      [] code \in {"P0002", "P0003"} -> "AuthzState"
      [] code = "23505" -> "AuthzConflict"
      [] code \in {"23503", "23514", "22P02"} -> "AuthzUsage"
      [] code \in {"42501", "PGRST106", "PGRST202"} -> "AuthzConfig"
      [] OTHER -> "Error"

AuthKitErrors == {"AuthzDenied", "AuthzState", "AuthzConflict", "AuthzUsage", "AuthzConfig"}

HttpErrors == {"Unauthenticated", "Forbidden", "MfaRequired", "TenantRequired", "MiddlewareNotInstalled"}

\* The status each HttpAuthzError is constructed with.
HttpStatus(e) ==
    CASE e = "Unauthenticated" -> 401
      [] e \in {"Forbidden", "MfaRequired"} -> 403
      [] e = "TenantRequired" -> 400
      [] e = "MiddlewareNotInstalled" -> 500

\* None for an error that is not the kit's.
StatusOf(e) ==
    CASE e \in HttpErrors -> HttpStatus(e)
      [] e = "AuthzDenied" -> 403
      [] e \in AuthKitErrors \ {"AuthzDenied"} -> 500
      [] OTHER -> None

\* A framework's own error handler honours an error's status property, which
\* only an HttpAuthzError has.
FrameworkStatus(e) == IF e \in HttpErrors THEN HttpStatus(e) ELSE 500

-----------------------------------------------------------------------------
(* The transports.  reply is what the database, or the way to it, answers: *)
(* [value, code] with code None for a success.                             *)

\* Every failure of a transport passes through here once.
Typed(settled) == IF settled.ok THEN settled ELSE Rejected(TypedError(settled.error))

\* pg and postgres.js reject with an error that carries the code.
FromQuery(reply) == IF reply.code = None THEN Resolved(reply.value) ELSE Rejected(reply.code)

\* Fault: the re-raised error carries the message alone.
FromSupabaseUncoded(reply) == IF reply.code = None THEN Resolved(reply.value) ELSE Rejected("")

\* supabase-js resolves with the error, which is re-raised with its code.
FromSupabase(reply) == IF reply.code = None THEN Resolved(reply.value) ELSE Rejected(reply.code)

Transports == {"query", "supabase"}

\* createAuthKit: exactly one way to reach the database.
Transport(way, reply) ==
    Typed(CASE way = "query" -> FromQuery(reply)
            [] way = "supabase" -> FromSupabase(reply))
=============================================================================
