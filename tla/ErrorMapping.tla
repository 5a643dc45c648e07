---------------------------- MODULE ErrorMapping ----------------------------
(***************************************************************************)
(* zrun_core.errors and zrun_bff.errors: the gRPC status an error of the   *)
(* servicers has on the wire, and the HTTP status of a gRPC status.        *)
(***************************************************************************)
EXTENDS Naturals

\* GRPC_TO_HTTP.
GrpcToHttp ==
  [OK                  |-> 200, CANCELLED          |-> 499,
   UNKNOWN             |-> 500, INVALID_ARGUMENT   |-> 400,
   DEADLINE_EXCEEDED   |-> 504, NOT_FOUND          |-> 404,
   ALREADY_EXISTS      |-> 409, PERMISSION_DENIED  |-> 403,
   UNAUTHENTICATED     |-> 401, RESOURCE_EXHAUSTED |-> 429,
   FAILED_PRECONDITION |-> 400, ABORTED            |-> 409,
   OUT_OF_RANGE        |-> 400, UNIMPLEMENTED      |-> 501,
   INTERNAL            |-> 500, UNAVAILABLE        |-> 503,
   DATA_LOSS           |-> 500]

\* The statuses that have an error class of their own in zrun_bff.errors.
BffStatuses == {400, 401, 403, 404, 409, 503}

\* grpc_error_to_bff_error of an AioRpcError; of any other exception it makes
\* an InternalError.
BffStatus(code) ==
  IF GrpcToHttp[code] \in BffStatuses THEN GrpcToHttp[code] ELSE 500

InternalStatus == 500

\* RETRYABLE_STATUS_CODES.
Retryable == {"UNAVAILABLE", "DEADLINE_EXCEEDED", "RESOURCE_EXHAUSTED", "ABORTED"}

\* What the servicers' abort_with_error puts on the wire: abort is a coroutine
\* that nobody awaits, so the call ends with the AssertionError behind it.
AbortedStatus == "UNKNOWN"
=============================================================================
