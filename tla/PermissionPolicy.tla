-------------------------- MODULE PermissionPolicy --------------------------
(***************************************************************************)
(* The permission decision of the agent runtime                            *)
(* (src/rust/crates/runtime/src/permissions.rs), as operators on a record  *)
(* that holds everything the decision reads:                               *)
(*                                                                         *)
(*   deny, ask, allow   does some rule of that list match the tool call    *)
(*   mode, required     the active mode and the mode the tool requires     *)
(*   override           what the PreToolUse hook asked for                 *)
(*   answer             what the interactive prompter would say, "absent"  *)
(*                      when the caller passed no prompter                 *)
(*                                                                         *)
(* Rule matching (glob text against tool name and input) is abstracted to  *)
(* the three booleans.                                                     *)
(***************************************************************************)
EXTENDS Naturals

PermissionMode == {"ReadOnly", "WorkspaceWrite", "DangerFullAccess", "Prompt", "Allow"}

\* What tool specifications and plugin manifests can require.
ToolPermission == {"ReadOnly", "WorkspaceWrite", "DangerFullAccess"}

\* The derived Ord of the enum: the order of its variants.
Rank == [ReadOnly |-> 0, WorkspaceWrite |-> 1, DangerFullAccess |-> 2,
         Prompt |-> 3, Allow |-> 4]

PermissionOverride == {"None", "Allow", "Ask", "Deny"}
Answer == {"absent", "yes", "no"}

Request == [deny : BOOLEAN, ask : BOOLEAN, allow : BOOLEAN,
            mode : PermissionMode, required : ToolPermission,
            override : PermissionOverride, answer : Answer]

\* prompt_or_deny: without a prompter the tool is denied.
PromptOrDeny(q) == q.answer = "yes"

\* The condition both early "Allow" returns test.
Granted(q) == \/ q.allow
              \/ q.mode = "Allow"
              \/ Rank[q.mode] >= Rank[q.required]

Escalates(q) == \/ q.mode = "Prompt"
                \/ q.mode = "WorkspaceWrite" /\ q.required = "DangerFullAccess"

\* Mutants: a hook's Allow wins over an ask rule; a hook's Ask is taken for
\* consent.
AuthorizeHookBeatsAskRule(q) ==
    /\ ~q.deny /\ q.override # "Deny"
    /\ IF q.override = "Ask" \/ (q.ask /\ q.override # "Allow") THEN PromptOrDeny(q)
       ELSE Granted(q) \/ (Escalates(q) /\ PromptOrDeny(q))

\* TRUE when authorize_with_context answers Allow; the branches in the
\* order of the code, an override of Allow falls through when not granted.
AuthorizeWithContext(q) ==
    IF q.deny THEN FALSE
    ELSE IF q.override = "Deny" THEN FALSE
    ELSE IF q.override = "Ask" THEN PromptOrDeny(q)
    ELSE IF q.override = "Allow" /\ q.ask THEN PromptOrDeny(q)
    ELSE IF q.override = "Allow" /\ Granted(q) THEN TRUE
    ELSE IF q.ask THEN PromptOrDeny(q)
    ELSE IF Granted(q) THEN TRUE
    ELSE Escalates(q) /\ PromptOrDeny(q)

\* authorize: the same decision outside a turn, with no hook guidance.
Authorize(q) == AuthorizeWithContext([q EXCEPT !.override = "None"])

\* PermissionEnforcer::check: Prompt mode is left to the caller, every other
\* mode is decided without a prompter.
EnforcerCheck(q) ==
    \/ q.mode = "Prompt"
    \/ Authorize([q EXCEPT !.answer = "absent"])

\* The cascade of authorize_with_context, whose branches test the same
\* conditions several times over, decides no more and no less than this: deny
\* rules and a hook's Deny are final, a hook's Ask or an ask rule needs a yes
\* whatever else holds, otherwise the mode or an allow rule grants, and a yes
\* bridges only an escalation.  (The branch of the code for Prompt mode is never
\* reached: Prompt ranks above everything a tool requires.)
ClosedForm(q) ==
    /\ ~q.deny /\ q.override # "Deny"
    /\ IF q.ask \/ q.override = "Ask"
       THEN q.answer = "yes"
       ELSE \/ q.allow \/ Rank[q.mode] >= Rank[q.required] \/ q.mode = "Allow"
            \/ /\ q.answer = "yes"
               /\ q.mode = "WorkspaceWrite" /\ q.required = "DangerFullAccess"
=============================================================================
