---------------------------- MODULE WorkerConfig ----------------------------
(***************************************************************************)
(* confer-worker-config: the oneshot unit that must succeed before the     *)
(* listener may start.  It runs under "set -euo pipefail": the first       *)
(* command that fails ends the script and the unit.  The id, manifest and  *)
(* bundle appear in /run/confer by a rename of a complete temporary file.  *)
(* ssh-keygen writes the host key in place: what is there of it before the *)
(* command has succeeded nobody looks at, since the unit is not done.      *)
(***************************************************************************)
EXTENDS WorkerVM

VARIABLE configPc

ConfigStates == {"fetchId", "keygen", "publishId", "manifest", "bundle", "done", "failed"}

ConfigTypeOK == configPc \in ConfigStates

ConfigInit == configPc = "fetchId"

(* get_metadata and require_instance_id.  The pattern ^[0-9]+$ also accepts *)
(* an id above 2^64 - 1, which the listener refuses.                        *)
FetchInstanceId ==
  /\ configPc = "fetchId"
  /\ instanceId' \in {"valid", "tooLarge"}
  /\ configPc' = "keygen"
  /\ UNCHANGED <<power, boot, files, authorizedKey, rtmr3, foreign, admissions>>

Publish(state, file, next) ==
  /\ configPc = state
  /\ files' = files \cup {file}
  /\ configPc' = next
  /\ UNCHANGED <<power, boot, instanceId, authorizedKey, rtmr3, foreign, admissions>>

GenerateHostKey   == Publish("keygen", "host-key", "publishId")
PublishInstanceId == Publish("publishId", "instance-id", "manifest")
FetchManifest     == Publish("manifest", "manifest", "bundle")
FetchBundle       == Publish("bundle", "bundle", "done")

(* Mutant: a script without set -e goes on to its end.          *)
ConfigFailsSilently ==
  /\ configPc \notin {"done", "failed"}
  /\ configPc' = "done"
  /\ UNCHANGED vmVars

(* The metadata server does not answer, the id is not a number, the evidence *)
(* is empty, above 32 KiB or not UTF-8, or a command fails: the script exits *)
(* without the file of this step.                                            *)
ConfigFails ==
  /\ configPc \notin {"done", "failed"}
  /\ configPc' = "failed"
  /\ UNCHANGED vmVars

ConfigStep == \/ FetchInstanceId \/ GenerateHostKey \/ PublishInstanceId
              \/ FetchManifest \/ FetchBundle

ConfigNext == power = "on" /\ (ConfigStep \/ ConfigFails)
=============================================================================
