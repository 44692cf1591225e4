------------------------------ MODULE RpcClient ------------------------------
(***************************************************************************)
(* The client of the public RPC (qdr/client.py CachedClient): a request    *)
(* that is retried, and the directory of answers it shares with every      *)
(* other client of the same data directory, in this process or another.    *)
(*                                                                         *)
(* What the server says to a request is an input.  A file is written in    *)
(* two steps, as the file system does it: it is emptied, then filled.      *)
(***************************************************************************)
EXTENDS Integers, FiniteSets, Sequences

CONSTANTS
  Clients,       \* the calls that may be under way at one time
  KeptPaths,     \* what is read from the cache first: computors, tick-data, ...
  FreshPaths,    \* what is always asked: tick-info, latest-stats, balances, ...
  Answers,       \* the answers a path may get
  RetryAttempts, \* RETRY_ATTEMPTS
  MaxCalls       \* bound: calls made

Paths == KeptPaths \cup FreshPaths

ASSUME ClientAssumption ==
  /\ RetryAttempts \in Nat \ {0} /\ MaxCalls \in Nat /\ KeptPaths \cap FreshPaths = {}
  /\ {"none", "torn", "refusal"} \cap Answers = {}

VARIABLES
  files,    \* the cache directory: path -> "none", "torn" or what was written
  calls,    \* each call under way
  given,    \* history: path -> the answers the server gave with status 200
  made      \* how many calls were made

clientVars == <<files, calls, given, made>>

\* Where a call stands, for which path, its attempt, what it got, why it ended.
Call(at, p, attempt, got, why) ==
  [at |-> at, path |-> p, attempt |-> attempt, got |-> got, why |-> why]

NoCall == Call("idle", "none", 0, "none", "none")

ClientInit ==
  /\ files = [p \in Paths |-> "none"] /\ given = [p \in Paths |-> {}]
  /\ calls = [c \in Clients |-> NoCall] /\ made = 0

-----------------------------------------------------------------------------

\* The call ends, with an answer or with an error.
Returns200(c, a) ==
  calls' = [calls EXCEPT ![c] = Call("done", @.path, @.attempt, a, "answer")]
Raises(c, reason) ==
  calls' = [calls EXCEPT ![c] = Call("done", @.path, @.attempt, "none", reason)]

\* A file of the path is on disk, and the call may read it.
Serves(p) == p \in KeptPaths /\ files[p] # "none"

\* _get up to its first request; a file that does not parse raises ValueError.
Ask(c, p, offline) ==
  /\ calls[c].at \in {"idle", "done"} /\ made < MaxCalls /\ made' = made + 1
  /\ calls' = [calls EXCEPT ![c] =
       CASE Serves(p) /\ files[p] # "torn" -> Call("done", p, 0, files[p], "cache")
         [] Serves(p) /\ files[p] = "torn" -> Call("done", p, 0, "none", "torn")
         [] ~Serves(p) /\ offline          -> Call("done", p, 0, "none", "offline")
         [] ~Serves(p) /\ ~offline         -> Call("send", p, 0, "none", "none")]
  /\ UNCHANGED <<files, given>>

\* No attempt is left.
NoneLeft(attempt) == attempt = RetryAttempts - 1

\* A request that failed for now: no connection, 429, or an error of the server.
TryAgain(c) ==
  IF NoneLeft(calls[c].attempt) THEN Raises(c, "tired")
  ELSE calls' = [calls EXCEPT ![c].attempt = @ + 1]

\* Mutant: the body is kept before its status is looked at.
RefusedMutant(c) == calls' = [calls EXCEPT ![c] = Call("open", @.path, @.attempt, "refusal", "none")]

\* Any other status, or a body that is no JSON.
Refused(c) == Raises(c, "refused")

\* One request and what comes of it.
Request(c) ==
  /\ calls[c].at = "send"
  /\ \/ TryAgain(c) /\ UNCHANGED given
     \/ Refused(c) /\ UNCHANGED given
     \/ \E a \in Answers :
          /\ given' = [given EXCEPT ![calls[c].path] = @ \cup {a}]
          /\ calls' = [calls EXCEPT ![c] = Call("open", @.path, @.attempt, a, "none")]
  /\ UNCHANGED <<files, made>>

\* write_text: the file is emptied, or cannot be opened, which is forgiven.
OpenFile(c) ==
  /\ calls[c].at = "open"
  /\ \/ /\ files' = [files EXCEPT ![calls[c].path] = "torn"]
        /\ calls' = [calls EXCEPT ![c] = Call("fill", @.path, @.attempt, @.got, "none")]
     \/ Returns200(c, calls[c].got) /\ UNCHANGED files
  /\ UNCHANGED <<given, made>>

\* The file is filled, or the disk is full, which is forgiven and leaves it torn.
FillFile(c) ==
  /\ calls[c].at = "fill"
  /\ files' = [files EXCEPT ![calls[c].path] = calls[c].got]
     \/ files' = [files EXCEPT ![calls[c].path] = "torn"]
  /\ Returns200(c, calls[c].got)
  /\ UNCHANGED <<given, made>>

\* The process of a call stops.
Killed(c) ==
  /\ calls[c].at \in {"send", "open", "fill"}
  /\ calls' = [calls EXCEPT ![c] = NoCall] /\ UNCHANGED <<files, given, made>>

ClientNext ==
  \E c \in Clients :
    \/ \E p \in Paths, offline \in BOOLEAN : Ask(c, p, offline)
    \/ Request(c) \/ OpenFile(c) \/ FillFile(c) \/ Killed(c)

ClientSpec == ClientInit /\ [][ClientNext]_clientVars

-----------------------------------------------------------------------------
(* Properties. *)

\* Whatever a call returns, read from the cache or not, the server gave with
\* status 200 for the very path, although error bodies pass through the same
\* code and several clients write one directory (client.py _get).
ReturnsWhatWasGiven ==
  \A c \in Clients : calls[c].got # "none" => calls[c].got \in given[calls[c].path]

\* A call gives up on a busy server only after RETRY_ATTEMPTS requests, and
\* never sends more (client.py RETRY_ATTEMPTS).
GivesUpInTime ==
  \A c \in Clients : /\ calls[c].attempt < RetryAttempts
                     /\ calls[c].why = "tired" => calls[c].attempt = RetryAttempts - 1
=============================================================================
