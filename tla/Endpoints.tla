------------------------------ MODULE Endpoints ------------------------------
(***************************************************************************)
(* Parts of the system that share no state, in one specification: the      *)
(* connection to the Codex provider, the desktop client with the gateway's *)
(* local conversations, the documents of the profiles, the catalog of the  *)
(* tools, the workspace they work in, the entries of a generation, the     *)
(* text the desktop client's composer edits, the answers of the other      *)
(* providers, and the choice of what a conversation's session works with.  *)
(* A behaviour is a behaviour of one of them, with the others in one of    *)
(* their initial states.                                                   *)
(***************************************************************************)
EXTENDS CodexConnection, LocalChat, Credentials, ToolCatalog, Workspace, Retention, TextBuffer, ModelAnswer, Selections

VARIABLE endpoint   \* whose behaviour it is

endpoints == <<endpoint, codexVars, chatVars, credentialVars, catalogVars, workspaceVars, retentionVars, buffer, answerVars, choiceVars>>
EveryEndpoint == {"codex", "chat", "credentials", "catalog", "workspace", "retention", "editor", "provider", "selection"}

(* What the others start with does not matter: one of their initial states *)
(* stands for all.                                                         *)
Init ==
  /\ endpoint \in EveryEndpoint
  /\ CodexInit
  /\ ChatInit /\ (endpoint # "chat" => habit = CHOOSE h \in Habits : TRUE)
  /\ CredentialsInit /\ (endpoint # "credentials" => rotates)
  /\ CatalogInit /\ (endpoint # "catalog" => \A tool \in ToolNames : registry[tool] = None)
  /\ WorkspaceInit
  /\ endpoint # "workspace" => file = <<>> /\ \A c \in Runs : call[c] = Requested("write", <<>>, <<>>, FALSE)
  /\ RetentionInit
  /\ TextInit
  /\ AnswerInit
  /\ endpoint # "provider" => script = <<>> /\ wanted.streaming /\ wanted.api = CHOOSE api \in Apis : TRUE
  /\ SelectionsInit
  /\ endpoint # "selection" => row = NewRow /\ \A p \in ProfileIds : shelf[p] = Missing

Codex == endpoint = "codex" /\ CodexNext /\ UNCHANGED <<endpoint, chatVars, credentialVars, catalogVars, workspaceVars, retentionVars, buffer, answerVars, choiceVars>>
Chat == endpoint = "chat" /\ ChatNext /\ UNCHANGED <<endpoint, codexVars, credentialVars, catalogVars, workspaceVars, retentionVars, buffer, answerVars, choiceVars>>
Documents == endpoint = "credentials" /\ CredentialsNext /\ UNCHANGED <<endpoint, codexVars, chatVars, catalogVars, workspaceVars, retentionVars, buffer, answerVars, choiceVars>>
Catalog == endpoint = "catalog" /\ CatalogNext /\ UNCHANGED <<endpoint, codexVars, chatVars, credentialVars, workspaceVars, retentionVars, buffer, answerVars, choiceVars>>
Tools == endpoint = "workspace" /\ WorkspaceNext /\ UNCHANGED <<endpoint, codexVars, chatVars, credentialVars, catalogVars, retentionVars, buffer, answerVars, choiceVars>>
Generation == endpoint = "retention" /\ RetentionNext /\ UNCHANGED <<endpoint, codexVars, chatVars, credentialVars, catalogVars, workspaceVars, buffer, answerVars, choiceVars>>
Editor == endpoint = "editor" /\ TextNext /\ UNCHANGED <<endpoint, codexVars, chatVars, credentialVars, catalogVars, workspaceVars, retentionVars, answerVars, choiceVars>>
Provider == endpoint = "provider" /\ AnswerNext /\ UNCHANGED <<endpoint, codexVars, chatVars, credentialVars, catalogVars, workspaceVars, retentionVars, buffer, choiceVars>>
Selection == endpoint = "selection" /\ SelectionsNext /\ UNCHANGED <<endpoint, codexVars, chatVars, credentialVars, catalogVars, workspaceVars, retentionVars, buffer, answerVars>>

Next == Codex \/ Chat \/ Documents \/ Catalog \/ Tools \/ Generation \/ Editor \/ Provider \/ Selection
Spec == Init /\ [][Next]_endpoints

\* The composer's edits are what they are on characters (EffectsExact of TextBuffer);
\* its text is only looked at while it is its behaviour.
EditorHonest == endpoint = "editor" => EffectsExact

\* The row, its session and the profiles to choose from (SelectionHonest of
\* Selections), looked at while it is their behaviour.
ChoiceHonest == endpoint = "selection" => SelectionHonest
=============================================================================
