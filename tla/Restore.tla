------------------------------ MODULE Restore ------------------------------
(***************************************************************************)
(* restore_backup of zero_mem/backup.py: a verified backup is copied and   *)
(* rebuilt in a staging directory, the data root (and the corpus root, if  *)
(* the backup has one) is renamed aside, the staging directory is renamed  *)
(* into its place, the configuration is rewritten, and the directories set *)
(* aside are removed.  A failure after the first activation is undone.     *)
(*                                                                         *)
(* A directory is modelled by what it holds: what was there before, the    *)
(* whole of the backup, something another process made, or a part of one   *)
(* of these while it is copied or removed.  No name is one of Recovery's,  *)
(* so that one module can extend both ways to replace the derived store.   *)
(***************************************************************************)
EXTENDS FiniteSets

CONSTANTS
    Failing,        \* the operations that may raise an exception
    Interruptible,  \* whether a KeyboardInterrupt may arrive
    Shared          \* whether another process may create a root that is missing

Operations == {"stage", "verify", "set_aside", "activate", "configure",
               "undo_remove", "undo", "undo_config"}

ASSUME RestoreAssumption ==
    /\ Failing \subseteq Operations
    /\ Interruptible \in BOOLEAN
    /\ Shared \in BOOLEAN

Parts == {"data", "corpus"}
Present == {"none", "old"}
Contents == {"none", "old", "new", "other", "partial"}

VARIABLES
    before,     \* what each root held when the call began, and hermes-integration.json
    restored,   \* the parts the backup holds; the data always
    active,     \* what each root holds
    aside,      \* the rollback directories
    staged,     \* the staging directories
    runtime,    \* config.json
    integration,\* hermes-integration.json
    activated,  \* the variable of that name
    place,      \* <<operation, part>>
    result      \* what the call returns or raises

given == <<before, restored>>
trees == <<active, aside, staged>>
config == <<runtime, integration>>
restoreVars == <<given, trees, config, activated, place, result>>

RestoreInit ==
    /\ before \in [Parts \cup {"integration"} -> Present]
    /\ restored \in {{"data"}, Parts}
    /\ active = [p \in Parts |-> before[p]]
    /\ aside = [p \in Parts |-> "none"]
    /\ staged = [p \in Parts |-> "none"]
    /\ runtime = "old" /\ integration = before["integration"]
    /\ activated = FALSE
    /\ place = <<"stage", "data">>
    /\ result = "none"

At(step, p) == place = <<step, p>>

\* Mutant: a failure goes to the finally clause, whatever was activated.
RaiseOnly ==
    /\ result' = IF At("activate", "data") THEN "activation_failed" ELSE "failed"
    /\ place' = <<"clean", "data">>

\* An exception: with activated set the except clause undoes what was done,
\* and the finally clause removes what is left.  The result tells a failure of
\* the data root's activation from the others.
Raise ==
    IF activated
    THEN result' = "failed" /\ place' = <<"undo_remove", "data">>
    ELSE /\ result' = IF At("activate", "data") THEN "activation_failed" ELSE "failed"
         /\ place' = <<"clean", "data">>

MayFail(step) == step \in Failing

\* os.replace on a directory fails when the target is there and not empty.
Free(p) == active[p] = "none"

-----------------------------------------------------------------------------
\* The staging directories, first without all their files.
Stage ==
    /\ At("stage", "data")
    /\ \/ /\ staged' = [p \in Parts |-> IF p \in restored THEN "partial" ELSE "none"]
          /\ place' = <<"verify", "data">>
          /\ UNCHANGED result
       \/ MayFail("stage") /\ Raise /\ UNCHANGED staged
    /\ UNCHANGED <<given, active, aside, config, activated>>

\* The copies are complete and valid, the derived store is rebuilt from them
\* and the doctor is content.
VerifyStaged ==
    /\ At("verify", "data")
    /\ \/ /\ staged' = [p \in Parts |-> IF p \in restored THEN "new" ELSE "none"]
          /\ place' = <<"set_aside", "data">>
          /\ UNCHANGED result
       \/ MayFail("verify") /\ Raise /\ UNCHANGED staged
    /\ UNCHANGED <<given, active, aside, config, activated>>

SetAside(p) ==
    /\ At("set_aside", p)
    /\ \/ /\ active' = [active EXCEPT ![p] = "none"]
          /\ aside' = [aside EXCEPT ![p] = active[p]]
          /\ place' = <<"activate", p>>
          /\ UNCHANGED result
       \/ MayFail("set_aside") /\ ~Free(p) /\ Raise /\ UNCHANGED <<active, aside>>
    /\ UNCHANGED <<given, staged, config, activated>>

\* What follows the activation of a part.
AfterActivation(p) ==
    IF p = "data" /\ "corpus" \in restored THEN <<"set_aside", "corpus">> ELSE <<"configure", "data">>

\* Mutant: the directory set aside goes as soon as its part is active.
ActivateAndDiscard(p) ==
    /\ At("activate", p)
    /\ Free(p)
    /\ active' = [active EXCEPT ![p] = staged[p]]
    /\ staged' = [staged EXCEPT ![p] = "none"]
    /\ aside' = [aside EXCEPT ![p] = "none"]
    /\ activated' = TRUE
    /\ place' = AfterActivation(p)
    /\ UNCHANGED <<given, config, result>>

Activate(p) ==
    /\ At("activate", p)
    /\ \/ /\ Free(p)
          /\ active' = [active EXCEPT ![p] = staged[p]]
          /\ staged' = [staged EXCEPT ![p] = "none"]
          /\ activated' = TRUE
          /\ place' = AfterActivation(p)
          /\ UNCHANGED result
       \/ /\ MayFail("activate") \/ ~Free(p)
          /\ Raise
          /\ UNCHANGED <<active, staged, activated>>
    /\ UNCHANGED <<given, aside, config>>

\* _restore_configuration writes config.json for the target.
Configure ==
    /\ At("configure", "data")
    /\ \/ runtime' = "new" /\ place' = <<"integrate", "data">> /\ UNCHANGED result
       \/ MayFail("configure") /\ Raise /\ UNCHANGED runtime
    /\ UNCHANGED <<given, trees, integration, activated>>

\* It then looks for hermes-integration.json in the restored data root, where
\* the backup's copy never is, and removes the one in use.
Integrate ==
    /\ At("integrate", "data")
    /\ \/ integration' = "none" /\ place' = <<"discard", "data">> /\ UNCHANGED result
       \/ MayFail("configure") /\ integration # "none" /\ Raise /\ UNCHANGED integration
    /\ UNCHANGED <<given, trees, runtime, activated>>

\* What rmtree(ignore_errors=True) may leave of a tree.
Removed(c) == IF c = "none" THEN {"none"} ELSE {"none", "partial", c}

\* The rollback directories are removed and the call returns.
Discard ==
    /\ At("discard", "data")
    /\ \E d, c \in Contents :
           /\ d \in Removed(aside["data"]) /\ c \in Removed(aside["corpus"])
           /\ aside' = [aside EXCEPT !["data"] = d, !["corpus"] = c]
    /\ result' = "success"
    /\ place' = <<"clean", "data">>
    /\ UNCHANGED <<given, active, staged, config, activated>>

-----------------------------------------------------------------------------
\* The undoing itself fails.
RaiseAgain == result' = "rollback_failed" /\ place' = <<"clean", "data">>

\* The corpus is undone only if it was set aside.
Undoes(p) == p = "data" \/ aside[p] # "none"

\* The new root is removed.
UndoRemove(p) ==
    /\ At("undo_remove", p)
    /\ \/ /\ active' = IF Undoes(p) THEN [active EXCEPT ![p] = "none"] ELSE active
          /\ place' = <<"undo", p>>
          /\ UNCHANGED result
       \/ /\ MayFail("undo_remove") /\ Undoes(p) /\ ~Free(p)
          /\ \E c \in {active[p], "partial"} : active' = [active EXCEPT ![p] = c]
          /\ RaiseAgain
    /\ UNCHANGED <<given, aside, staged, config, activated>>

\* The old one is put back.
Undo(p) ==
    /\ At("undo", p)
    /\ \/ /\ aside[p] = "none" \/ Free(p)
          /\ IF aside[p] = "none"
             THEN UNCHANGED <<active, aside>>
             ELSE /\ active' = [active EXCEPT ![p] = aside[p]]
                  /\ aside' = [aside EXCEPT ![p] = "none"]
          /\ place' = IF p = "data" THEN <<"undo_remove", "corpus">> ELSE <<"undo_config", "data">>
          /\ UNCHANGED result
       \/ /\ aside[p] # "none"
          /\ MayFail("undo") \/ ~Free(p)
          /\ RaiseAgain
          /\ UNCHANGED <<active, aside>>
    /\ UNCHANGED <<given, staged, config, activated>>

\* _restore_config_snapshot writes both files back, one after the other.
UndoConfig ==
    /\ At("undo_config", "data")
    /\ \/ /\ runtime' = "old" /\ integration' = before["integration"]
          /\ place' = <<"clean", "data">>
          /\ UNCHANGED result
       \/ /\ MayFail("undo_config")
          /\ runtime' \in {runtime, "old"} /\ UNCHANGED integration
          /\ RaiseAgain
    /\ UNCHANGED <<given, trees, activated>>

\* The finally clause: the staging directories go, and whatever still is in a
\* rollback directory goes with them.
Clean ==
    /\ At("clean", "data")
    /\ \E s, t, d, c \in Contents :
           /\ s \in Removed(staged["data"]) /\ t \in Removed(staged["corpus"])
           /\ d \in Removed(aside["data"]) /\ c \in Removed(aside["corpus"])
           /\ staged' = [staged EXCEPT !["data"] = s, !["corpus"] = t]
           /\ aside' = [aside EXCEPT !["data"] = d, !["corpus"] = c]
    /\ place' = <<"done", "data">>
    /\ UNCHANGED <<given, active, config, activated, result>>

Ended == place[1] \in {"done", "dead"}

\* A KeyboardInterrupt is no Exception: only the finally clause sees it.
Interrupt ==
    /\ Interruptible
    /\ ~Ended /\ ~At("clean", "data")
    /\ result' = "interrupted"
    /\ place' = <<"clean", "data">>
    /\ UNCHANGED <<given, trees, config, activated>>

\* The process dies.
RestoreCrash ==
    /\ ~Ended
    /\ place' = <<"dead", "data">>
    /\ UNCHANGED <<given, trees, config, activated, result>>

\* A process that opens a store or a registry creates a root that is missing.
Create(p) ==
    /\ Shared
    /\ ~Ended /\ Free(p)
    /\ active' = [active EXCEPT ![p] = "other"]
    /\ UNCHANGED <<given, aside, staged, config, activated, place, result>>

RestoreNext ==
    \/ Stage \/ VerifyStaged \/ Configure \/ Integrate \/ Discard
    \/ \E p \in Parts : SetAside(p) \/ Activate(p) \/ UndoRemove(p) \/ Undo(p) \/ Create(p)
    \/ UndoConfig \/ Clean \/ Interrupt \/ RestoreCrash

RestoreSpec == RestoreInit /\ [][RestoreNext]_restoreVars

-----------------------------------------------------------------------------
(***************************************************************************)
(* Properties.                                                             *)
(***************************************************************************)

\* Every variable has its type; the corpus is worked on only if it is there to
\* be restored.
RestoreTypeOK ==
    /\ before \in [Parts \cup {"integration"} -> Present]
    /\ restored \in {{"data"}, Parts}
    /\ active \in [Parts -> Contents]
    /\ aside \in [Parts -> Contents]
    /\ staged \in [Parts -> Contents]
    /\ runtime \in {"old", "new"} /\ integration \in Present
    /\ activated \in BOOLEAN
    /\ place \in ({"set_aside", "activate"} \X restored)
             \cup ({"undo_remove", "undo"} \X Parts)
             \cup ({"stage", "verify", "configure", "integrate", "discard", "undo_config",
                    "clean", "done", "dead"} \X {"data"})
    /\ result \in {"none", "success", "failed", "activation_failed", "rollback_failed",
                   "interrupted"}

AllNew == runtime = "new" /\ \A p \in restored : active[p] = "new"

\* The outcomes after which the finally clause may have removed the only copy.
Careless == {"activation_failed", "rollback_failed", "interrupted"}

\* What a root held is in place or in its rollback directory until the whole
\* of the backup is active, corpus and configuration included, wherever an
\* operation fails and the process dies.
OldOrAllNew ==
    \/ At("done", "data") /\ result \in Careless
    \/ \A p \in Parts : before[p] = "old" => active[p] = "old" \/ aside[p] = "old" \/ AllNew

\* A restore that fails after all leaves roots and configuration as they were;
\* one that returns has activated everything the backup holds.  (A corpus root
\* that did not exist before may stay.)
AllOrNothing ==
    At("done", "data") =>
        /\ result = "success" => AllNew
        /\ result = "failed" =>
               /\ runtime = "old" /\ integration = before["integration"]
               /\ \A p \in Parts : before[p] = "old" => active[p] = "old"
               /\ active["data"] \notin {"new", "partial"}

\* docs/v1.1.0/MIGRATION-ROLLBACK.md:7: on interruption or failure the rollback
\* directory is there to be restored, if it has not been already.  The code does
\* not keep it: when the second rename fails the finally clause removes the
\* only copy.
RollbackIsAvailable ==
    At("done", "data") /\ before["data"] = "old" =>
        active["data"] = "old" \/ aside["data"] = "old" \/ AllNew
=============================================================================
