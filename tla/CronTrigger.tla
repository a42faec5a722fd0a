----------------------------- MODULE CronTrigger -----------------------------
(***************************************************************************)
(* TickerImpl.runCronWorkflowV1 (internal/services/ticker/cron_v1.go): one *)
(* cron tick builds the run's additional metadata from the caller's map    *)
(* and the hatchet__ keys, marshals it, builds the trigger message and     *)
(* sends it to the task queue. Metadata maps are TLA+ functions; a value   *)
(* is a model value.                                                       *)
(***************************************************************************)
EXTENDS TLC

CONSTANTS
  UserKeys,   \* keys a user may put in a cron's additional metadata
  UserVals,   \* values they may carry
  CronExprs,  \* cron expressions
  CronNames,  \* cron names
  Nil         \* model value: a nil map or a nil *string

CronExprKey == "hatchet__cron_expression"
CronNameKey == "hatchet__cron_name"
HatchetKeys == {CronExprKey, CronNameKey}

\* a user may set any key, the reserved ones included
Keys == UserKeys \cup HatchetKeys

\* maps over Keys with values in V
MapsOver(V) == UNION {[S -> V] : S \in SUBSET Keys}

\* the maps a caller may pass: nil, or any map over Keys
MetadataMaps == MapsOver(UserVals)

VARIABLES
  input,               \* the caller's map as it was passed
  additionalMetadata,  \* the caller's map (Nil, or a map)
  cron, cronName,      \* the tick's arguments
  outcome,             \* "pending", "sent", or the error returned
  msg                  \* the AdditionalMetadata of the sent message

vars == <<input, additionalMetadata, cron, cronName, outcome, msg>>

\* Mutant: hatchet__cron_name is set without checking cronName for nil.
CronMetadataNoNilCheck(c, n) ==
  [k \in HatchetKeys |-> IF k = CronExprKey THEN c ELSE n]

\* metadata := {hatchet__cron_expression: cron} plus hatchet__cron_name
\* when cronName is not nil
CronMetadata(c, n) ==
  IF n = Nil THEN [k \in {CronExprKey} |-> c]
  ELSE [k \in HatchetKeys |-> IF k = CronExprKey THEN c ELSE n]

\* Mutant: maps.Copy(metadata, additionalMetadata): the user's keys win.
MergeReversed(dst, src) == dst @@ src

\* maps.Copy(dst, src): every key of src is written into dst
Merge(dst, src) == src @@ dst

\* the whole handler: a nil map is replaced by an empty one, the hatchet
\* keys are copied into it (the caller's own map is written to), and the
\* marshal, message build or send may fail with an error
RunCronWorkflowV1 ==
  /\ outcome = "pending"
  /\ LET base   == IF additionalMetadata = Nil THEN <<>> ELSE additionalMetadata
         merged == Merge(base, CronMetadata(cron, cronName))
     IN /\ additionalMetadata' = IF additionalMetadata = Nil THEN Nil ELSE merged
        /\ \/ outcome' = "sent" /\ msg' = merged
           \/ outcome' \in {"marshalError", "messageError", "sendError"} /\ msg' = Nil
  /\ UNCHANGED <<input, cron, cronName>>

Init ==
  /\ input \in MetadataMaps \cup {Nil}
  /\ additionalMetadata = input
  /\ cron \in CronExprs
  /\ cronName \in CronNames \cup {Nil}
  /\ outcome = "pending"
  /\ msg = Nil

Next == RunCronWorkflowV1

Spec == Init /\ [][Next]_vars

-----------------------------------------------------------------------------
(* Properties                                                               *)

AllVals == UserVals \cup CronExprs \cup CronNames

TypeOK ==
  /\ input \in MetadataMaps \cup {Nil}
  /\ additionalMetadata \in MapsOver(AllVals) \cup {Nil}
  /\ cron \in CronExprs /\ cronName \in CronNames \cup {Nil}
  /\ outcome \in {"pending", "sent", "marshalError", "messageError", "sendError"}
  /\ msg \in MapsOver(AllVals) \cup {Nil}

\* A sent run's metadata names the cron that fired it, whatever the user's
\* metadata held under the reserved keys ("copy metadata into
\* additionalMetadata as to not override hatchet_* keys"), and keeps every
\* other key of the user's metadata unchanged.
HatchetKeysWin ==
  outcome = "sent" =>
    /\ msg[CronExprKey] = cron
    /\ cronName # Nil => msg[CronNameKey] = cronName
    /\ input # Nil =>
         \A k \in DOMAIN input \ HatchetKeys :
           k \in DOMAIN msg /\ msg[k] = input[k]

=============================================================================
