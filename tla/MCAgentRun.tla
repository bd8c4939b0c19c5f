------------------------------- MODULE MCAgentRun -------------------------------
(* Small instances of AgentRun for TLC.                                        *)
EXTENDS AgentRun, TLC

\* Records of freshness: committed at 2, the summary of the projection larger than the others.
MCRef(kind) == [kind |-> kind, store |-> "ours", source |-> "pos", job |-> "j1",
                committedAt |-> 2, size |-> IF kind = "projection" THEN 2 ELSE 1, raw |-> FALSE]
MCRefs == <<MCRef("projection"), MCRef("snapshot"), MCRef("benchmark"), MCRef("evidence")>>

MCClean == [store |-> "ours", freeForm |-> FALSE, unsafeCatalog |-> FALSE, catalog |-> ToolNames,
            deadLetters |-> {}, refs |-> MCRefs, minimum |-> 2, seedFits |-> TRUE,
            maxToolResult |-> 4, required |-> RequiredWorkerKinds]

MCForeign == [MCRef("snapshot") EXCEPT !.store = "theirs", !.committedAt = 3]
MCStale == [MCRef("snapshot") EXCEPT !.committedAt = 1]
MCRaw == [MCRef("snapshot") EXCEPT !.raw = TRUE]

MCWith(ref) == [MCClean EXCEPT !.refs[2] = ref]

\* A fit attempt whose caller also passed unfit records.
MCWithExtra == [MCClean EXCEPT !.refs = MCRefs \o <<MCForeign, MCStale, MCRaw>>]

MCAllowed == {"read_worker_freshness", "read_projection_summary", "read_snapshot_summary"}
MCSetup(input, allowed, defect) == [input |-> input, allowed |-> allowed, defect |-> defect]

\* Setups refused at each gate before the turn, and one that is not.
MCGates ==
  [clean |-> MCSetup(MCWithExtra, MCAllowed, "none"),
   foreign |-> MCSetup(MCWith(MCForeign), MCAllowed, "none"),
   stale |-> MCSetup(MCWith(MCStale), MCAllowed, "none"),
   missing |-> MCSetup([MCClean EXCEPT !.refs = Tail(MCRefs)], MCAllowed, "none"),
   dead_letter |-> MCSetup([MCClean EXCEPT !.deadLetters = {"evidence"}], MCAllowed, "none"),
   narrow |-> MCSetup([MCClean EXCEPT !.catalog = {"read_projection_summary"}], MCAllowed, "none"),
   no_callbacks |-> MCSetup(MCClean, MCAllowed, "callbacks"),
   bad_policy |-> MCSetup(MCClean, MCAllowed, "policy"),
   no_runtime |-> MCSetup(MCClean, MCAllowed, "runtime")]

MCCall(name, arg) == [name |-> name, arg |-> arg]

\* Calls that are answered, over budget, out of scope and not allowed.
MCToolCalls ==
  {MCCall("read_worker_freshness", "snapshot"), MCCall("read_projection_summary", "j1"),
   MCCall("read_snapshot_summary", "j2"), MCCall("read_evidence_records", "j1")}

MCDiagnosis == {MCCall("read_dead_letter_diagnosis", "j1")}
MCDiagnosisSetups == [diagnosis |-> MCSetup(MCClean, {"read_dead_letter_diagnosis"}, "none")]

MCDraft(refs, guardrails) == [refs |-> refs, guardrails |-> guardrails]
MCDrafts == {MCDraft({"e1"}, TRUE), MCDraft({"e1", "e2"}, TRUE)}

MCContext == [own |-> TRUE, refs |-> {"e1"}, confident |-> TRUE, sufficient |-> TRUE]
MCContexts == {MCContext, [MCContext EXCEPT !.sufficient = FALSE], [MCContext EXCEPT !.own = FALSE]}

Symmetry == Permutations(Calls)
===============================================================================
