-------------------------------- MODULE Rpc ---------------------------------
(***************************************************************************)
(* What becomes of a handler's error on its way to the client: the error   *)
(* chain of pkg/errors, HandleError of the gRPC handlers and the           *)
(* interceptors of pkg/grpckit.                                            *)
(*                                                                         *)
(* An error is the sequence of the codes on its chain, outermost first;    *)
(* an error of another package is PLAIN, and <<>> is nil.                  *)
(***************************************************************************)
EXTENDS Naturals, Sequences

Code ==
  {"UNKNOWN", "OK", "NOT_FOUND", "ALREADY_EXISTS", "INVALID_ARGUMENT", "UNAUTHENTICATED",
   "PERMISSION_DENIED", "INTERNAL", "UNAVAILABLE", "TIMEOUT", "CANCELED", "CONFLICT",
   "TOO_MANY_REQUESTS", "VALIDATION_FAILED", "FAILED_PRECONDITION", "OUT_OF_RANGE",
   "UNIMPLEMENTED", "DATA_LOSS"}

New(code) == <<code>>
Wrapf(err, code) == IF err = <<>> THEN <<>> ELSE <<code>> \o err

\* errors.Is of a sentinel: Error.Is compares codes, all along the chain.
Is(err, code) == \E i \in DOMAIN err : err[i] = code

\* The places of the chain that hold an *Error.
Tagged(err) == {i \in DOMAIN err : err[i] # "PLAIN"}

\* errors.As of an *Error: the outermost one.
As(err) == err[CHOOSE i \in Tagged(err) : \A j \in Tagged(err) : i <= j]

grpcCode(code) ==
  CASE code \in {"INVALID_ARGUMENT", "VALIDATION_FAILED"} -> "INVALID_ARGUMENT"
    [] code \in {"INTERNAL", "UNKNOWN"} -> "INTERNAL"
    [] code = "TIMEOUT" -> "DEADLINE_EXCEEDED"
    [] code = "CONFLICT" -> "ABORTED"
    [] code = "TOO_MANY_REQUESTS" -> "RESOURCE_EXHAUSTED"
    [] OTHER -> code

ToGRPCError(err) ==
  IF err = <<>> THEN "OK" ELSE IF Tagged(err) = {} THEN "UNKNOWN" ELSE grpcCode(As(err))

\* Mutant: the sentinels are not looked for inside the chain.
HandleErrorShallow(err) ==
  IF err # <<>> /\ Tagged(err) = {} THEN "INTERNAL" ELSE ToGRPCError(err)

\* Handler.HandleError: the sentinels first, whatever they are wrapped in.
HandleError(err) ==
  IF err = <<>> THEN "OK"
  ELSE IF Is(err, "NOT_FOUND") THEN "NOT_FOUND"
  ELSE IF Is(err, "ALREADY_EXISTS") THEN "ALREADY_EXISTS"
  ELSE IF Tagged(err) # {} THEN ToGRPCError(err)
  ELSE "INTERNAL"

\* StaticTokenAuthUnaryInterceptor: an empty expected token lets all in.
Authorized(expected, token) == expected = "" \/ token = expected

\* RecoveryInterceptor: the status of a handler that panicked.
Recovered == "INTERNAL"
=============================================================================
