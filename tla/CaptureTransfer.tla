---------------------------- MODULE CaptureTransfer ----------------------------
(***************************************************************************)
(* The transfer of one capture to an Android device, before a remote replay *)
(* opens it (rdc_tool/core/session_manager.py,                              *)
(* _copy_android_capture_with_adb).  The capture is pushed into a directory *)
(* of the shell user and copied by a pipeline on the device into the        *)
(* private directory of the helper, under a name that is its digest.        *)
(*                                                                         *)
(* One worker makes one attempt after the other, but the writer of an       *)
(* attempt runs on the device and outlives the adb client that was killed   *)
(* for its timeout, and the worker.  Every adb command may be executed and  *)
(* its answer lost.  Contents are "none", "part" or "whole": only the last  *)
(* has the digest in the name.                                              *)
(***************************************************************************)
EXTENDS FiniteSets

CONSTANTS
  Attempts,  \* the nonces of the attempts
  Nobody

ASSUME NobodyAssumption == Nobody \notin Attempts

VARIABLES
  stage,     \* what the worker does, "start" when no attempt is in progress
  nonce,     \* the attempt in progress
  outcome,   \* how every attempt ended
  told,      \* what the error of an attempt says is retained or not removed
  shell,     \* shell_dir of every attempt: "none", "empty", or its source.rdc
  writer,    \* the writer on the device of every attempt
  cache,     \* remote_path: its content and the writer that created it
  owned,     \* the native server deletes remote_path with the connection
  opened     \* a replay has the capture open

transferVars == <<stage, nonce, outcome, told, shell, writer, cache, owned, opened>>

NoFile == [content |-> "none", by |-> Nobody]
Partial(a) == [content |-> "part", by |-> a]

TransferInit ==
  /\ stage = "start" /\ nonce = Nobody
  /\ outcome = [a \in Attempts |-> "none"]
  /\ told = [a \in Attempts |-> {}]
  /\ shell = [a \in Attempts |-> "none"]
  /\ writer = [a \in Attempts |-> "none"]
  /\ cache = NoFile
  /\ owned = FALSE /\ opened = FALSE

Proceed(s) == stage' = s /\ UNCHANGED <<nonce, outcome, told>>

\* Mutant: the attempt is left open.
FailOpen(left) ==
  /\ stage' = "start" /\ nonce' = Nobody
  /\ told' = [told EXCEPT ![nonce] = left]
  /\ UNCHANGED outcome

\* The attempt ends with an error that names what it leaves behind.
Fail(left) ==
  /\ stage' = "start" /\ nonce' = Nobody
  /\ outcome' = [outcome EXCEPT ![nonce] = "failed"]
  /\ told' = [told EXCEPT ![nonce] = left]

---------------------------------------------------------------------------
(* Before the writer                                                        *)

Begin(a) ==
  /\ stage = "start"
  /\ outcome[a] = "none"
  /\ stage' = "look" /\ nonce' = a
  /\ outcome' = [outcome EXCEPT ![a] = "running"]
  /\ UNCHANGED <<told, shell, writer, cache, owned, opened>>

\* Mutant: whatever is in the cache is taken.
ReusableAny == cache.content # "none"

Reusable == cache.content = "whole"

\* A file of another content, or one that cannot be read, is left alone.
LookUp ==
  /\ stage = "look"
  /\ \/ Reusable /\ Proceed("open")
     \/ cache.content = "none" /\ Proceed("mkdir")
     \/ Fail({})
  /\ UNCHANGED <<shell, writer, cache, owned, opened>>

MakeShell ==
  /\ stage = "mkdir"
  /\ \/ shell' = [shell EXCEPT ![nonce] = "empty"] /\ Proceed("push")
     \/ shell' \in {shell, [shell EXCEPT ![nonce] = "empty"]} /\ Fail({"shell"})
     \/ UNCHANGED shell /\ Fail({})
  /\ UNCHANGED <<writer, cache, owned, opened>>

Push ==
  /\ stage = "push"
  /\ \E c \in {"empty", "part", "whole"} : shell' = [shell EXCEPT ![nonce] = c]
  /\ Proceed("source") \/ Fail({"shell"})
  /\ UNCHANGED <<writer, cache, owned, opened>>

CheckSource ==
  /\ stage = "source"
  /\ \/ shell[nonce] = "whole" /\ Proceed("pipe")
     \/ Fail({"shell"})
  /\ UNCHANGED <<shell, writer, cache, owned, opened>>

---------------------------------------------------------------------------
(* The writer on the device                                                 *)

Launch ==
  /\ stage = "pipe"
  /\ writer' = [writer EXCEPT ![nonce] = "starting"]
  /\ Proceed("receipt")
  /\ UNCHANGED <<shell, cache, owned, opened>>

\* Mutant: without set -C an existing file is truncated.
CreatesClobbering(a) ==
  cache' = Partial(a) /\ writer' = [writer EXCEPT ![a] = "writing"]

\* set -C; exec 3> remote_path || exit
Creates(a) ==
  IF cache = NoFile
    THEN cache' = Partial(a) /\ writer' = [writer EXCEPT ![a] = "writing"]
    ELSE writer' = [writer EXCEPT ![a] = "dead"] /\ UNCHANGED cache

WriterOpens(a) ==
  /\ writer[a] = "starting"
  /\ Creates(a)
  /\ UNCHANGED <<stage, nonce, outcome, told, shell, owned, opened>>

\* A file that was removed or is another writer's does not change.
WriterWrites(a) ==
  /\ writer[a] = "writing"
  /\ cache = Partial(a)
  /\ cache' = [cache EXCEPT !.content = "whole"]
  /\ UNCHANGED <<stage, nonce, outcome, told, shell, writer, owned, opened>>

\* The receipts of CREATED and DONE:0 or another code; the first cat may have
\* failed, so that the code is 0 and the file too short.
WriterEnds(a) ==
  /\ writer[a] = "writing"
  /\ \E end \in {"done", "failed"} : writer' = [writer EXCEPT ![a] = end]
  /\ UNCHANGED <<stage, nonce, outcome, told, shell, cache, owned, opened>>

WriterKilled(a) ==
  /\ writer[a] \in {"starting", "writing"}
  /\ writer' = [writer EXCEPT ![a] = "dead"]
  /\ UNCHANGED <<stage, nonce, outcome, told, shell, cache, owned, opened>>

\* Mutant: the file is removed without the receipt of its writer.
UnconfirmedRemoves == Proceed("remove")

\* The adb client timed out, or the two receipts of this nonce are missing.
Unconfirmed == Fail({"shell", "cache"})

Receipt ==
  /\ stage = "receipt"
  /\ \/ Unconfirmed
     \/ writer[nonce] = "done" /\ Proceed("verify")
     \/ writer[nonce] \in {"done", "failed"} /\ Proceed("remove")
  /\ UNCHANGED <<shell, writer, cache, owned, opened>>

---------------------------------------------------------------------------
(* After the writer                                                         *)

Verify ==
  /\ stage = "verify"
  /\ \/ cache.content = "whole" /\ Proceed("claim")
     \/ Proceed("remove")
  /\ UNCHANGED <<shell, writer, cache, owned, opened>>

\* Mutant: the path is forgotten before the server takes it.
ClaimFailsForgotten == Proceed("fail")

ClaimFails == Proceed("remove")

\* TakeOwnershipCapture may raise after the server took the file.
Claim ==
  /\ stage = "claim"
  /\ \/ owned' = TRUE /\ Proceed("clean")
     \/ owned' \in {owned, TRUE} /\ ClaimFails
  /\ UNCHANGED <<shell, writer, cache, opened>>

\* cleanup_owned after an error: remote_path, with or without a receipt.
Remove ==
  /\ stage = "remove"
  /\ \/ cache' = NoFile /\ Proceed("fail")
     \/ /\ cache' \in {cache, NoFile}
        /\ stage' = "fail" /\ told' = [told EXCEPT ![nonce] = {"cache"}]
        /\ UNCHANGED <<nonce, outcome>>
  /\ UNCHANGED <<shell, writer, owned, opened>>

\* cleanup_owned: source.rdc and shell_dir.
Clean ==
  /\ stage \in {"clean", "fail"}
  /\ \/ /\ shell' = [shell EXCEPT ![nonce] = "none"]
        /\ IF stage = "fail" THEN Fail(told[nonce]) ELSE Proceed("open")
     \/ /\ shell' \in {shell, [shell EXCEPT ![nonce] = "empty"], [shell EXCEPT ![nonce] = "none"]}
        /\ Fail(told[nonce] \cup {"shell"})
  /\ UNCHANGED <<writer, cache, owned, opened>>

OpenCapture ==
  /\ stage = "open"
  /\ stage' = "start" /\ nonce' = Nobody
  /\ outcome' = [outcome EXCEPT ![nonce] = "returned"]
  /\ opened' \in {opened, TRUE}
  /\ UNCHANGED <<told, shell, writer, cache, owned>>

---------------------------------------------------------------------------
\* The replays of the connection are closed.
CloseCaptures ==
  /\ stage = "start" /\ opened
  /\ opened' = FALSE
  /\ UNCHANGED <<stage, nonce, outcome, told, shell, writer, cache, owned>>

\* The connection ends, by a disconnect or with the worker, and the server
\* deletes what it owns.
ConnectionEnds ==
  /\ stage' = "start" /\ nonce' = Nobody
  /\ outcome' = [a \in Attempts |-> IF a = nonce THEN "lost" ELSE outcome[a]]
  /\ cache' = IF owned THEN NoFile ELSE cache
  /\ owned' = FALSE /\ opened' = FALSE
  /\ UNCHANGED <<told, shell, writer>>

DeviceStep(a) == WriterOpens(a) \/ WriterWrites(a) \/ WriterEnds(a) \/ WriterKilled(a)

TransferNext ==
  \/ \E a \in Attempts : Begin(a) \/ DeviceStep(a)
  \/ LookUp \/ MakeShell \/ Push \/ CheckSource \/ Launch \/ Receipt
  \/ Verify \/ Claim \/ Remove \/ Clean \/ OpenCapture
  \/ CloseCaptures \/ ConnectionEnds

TransferSpec == TransferInit /\ [][TransferNext]_transferVars

---------------------------------------------------------------------------
Contents == {"none", "part", "whole"}

\* A writer writes only after its attempt pushed the source, and the attempt in
\* progress is the one that runs.
TransferTypeOK ==
  /\ stage \in {"start", "look", "mkdir", "push", "source", "pipe", "receipt", "verify", "claim",
                "remove", "fail", "clean", "open"}
  /\ nonce \in Attempts \cup {Nobody}
  /\ outcome \in [Attempts -> {"none", "running", "failed", "returned", "lost"}]
  /\ told \in [Attempts -> SUBSET {"shell", "cache"}]
  /\ shell \in [Attempts -> Contents \cup {"empty"}]
  /\ writer \in [Attempts -> {"none", "starting", "writing", "done", "failed", "dead"}]
  /\ cache \in [content : Contents, by : Attempts \cup {Nobody}]
  /\ owned \in BOOLEAN /\ opened \in BOOLEAN
  /\ {a \in Attempts : outcome[a] = "running"} = {nonce} \ {Nobody}
  /\ cache = NoFile <=> cache.content = "none"

\* A replay has the whole capture open for as long as it lives: it was whole
\* when it was opened, by this attempt or an earlier one, and no writer an
\* earlier attempt left on the device truncates it (session_manager.py 548).
OpenedIsWhole == opened => cache.content = "whole"

\* The tool never unlinks a file that a writer on the device has open: an adb
\* client that was killed is no receipt (session_manager.py 563).
RemovesNoLiveFile ==
  [][stage = "remove" /\ cache' # cache => cache.by # Nobody /\ writer[cache.by] # "writing"]_transferVars

\* Whatever an attempt that was answered left on the device is the server's to
\* delete or is named in its error, so that it can be found: also what its
\* writer creates after the answer.
LeftoversAreNamed ==
  \A a \in Attempts : outcome[a] \in {"failed", "returned"} =>
    /\ shell[a] # "none" => "shell" \in told[a]
    /\ cache.by = a /\ ~owned => "cache" \in told[a]
===============================================================================
