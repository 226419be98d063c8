------------------------------ MODULE MCHermes ------------------------------
(* Small instances of Hermes. *)
EXTENDS Hermes

MCEnv(switch, mode, capture) == [switch |-> switch, mode |-> mode, capture |-> capture]
MCEnvs == {MCEnv("true", "inject", "absent"), MCEnv("absent", "absent", "observation_only"),
           MCEnv("false", "inject", "absent")}

MCHook(hook, session, item, never) ==
  [hook |-> hook, id |-> None, session |-> session, item |-> item, life |-> None,
   safe |-> TRUE, neverStore |-> never, size |-> 1]
MCHostEvents == {MCHook("pre_llm_call", "s1", "t1", FALSE), MCHook("on_session_reset", "s1", None, TRUE)}
MCRankOf(id) == IF id[1] = "generated" THEN 30 + id[3] ELSE IF id[2] = "pre_llm_call" THEN 21 ELSE 22

MCCall(tool, type, given) ==
  [tool |-> tool, operation |-> "READ", type |-> type, known |-> TRUE, bounded |-> TRUE, given |-> given]
MCToolCalls == {MCCall("memory_query", None, {}), MCCall("corpus_search", "event", {"search_text"}),
                MCCall("project_get_state", None, {})}

MCRequest(intents, text) ==
  [hint |-> None, intents |-> intents, project |-> "p", session |-> "s1", profile |-> "u",
   targets |-> <<>>, spaces |-> <<>>, text |-> text]
MCRequests == {MCRequest({"project"}, TRUE), MCRequest({"user"}, FALSE), MCRequest({"fresh"}, TRUE)}

MCItem(type, id, life, status, at, size) ==
  [id |-> id, type |-> type, memory |-> None, life |-> life, status |-> status, sensitivity |-> "internal",
   at |-> at, sourceEvent |-> None, trace |-> None, session |-> "s1", profile |-> "u", project |-> "p",
   space |-> None, size |-> size, matches |-> TRUE, validFrom |-> None, conflict |-> FALSE, relevance |-> None]

(* Three primary and three supporting items of the project, two of them of *)
(* one trace and an artifact that no profile owns; three events, of which  *)
(* a page returns two; a unit of the corpus.                               *)
MCMemory ==
  {MCItem("state", 1, "active", None, 1, 1), MCItem("verification", 2, None, "deterministic_verification", 2, 2),
   [MCItem("decision", 3, "active", None, 3, 2) EXCEPT !.trace = 100],
   [MCItem("decision", 4, "superseded", None, 1, 1) EXCEPT !.trace = 100],
   [MCItem("artifact", 5, "active", None, 2, 1) EXCEPT !.profile = None],
   [MCItem("corpus_unit", 6, "active", None, None, 2) EXCEPT !.sourceEvent = 50, !.trace = 50],
   MCItem("event", 7, "active", "user_confirmation", 1, 2),
   [MCItem("event", 8, "active", None, 2, 1) EXCEPT !.memory = "assistant_claim"],
   [MCItem("event", 9, "active", "approval", 3, 1) EXCEPT !.sensitivity = "secret"]}

(* The decision superseded, the unit longer than the context, a            *)
(* requirement under the identity of another record, a deleted state.      *)
MCRewrites ==
  {[MCItem("decision", 3, "superseded", None, 3, 2) EXCEPT !.trace = 100],
   MCItem("verification", 2, None, "deterministic_verification", 2, 9),
   MCItem("requirement", 5, "active", "user_confirmation", 4, 1),
   MCItem("state", 1, "deleted", None, 1, 1)}
=============================================================================
