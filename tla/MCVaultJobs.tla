----------------------------- MODULE MCVaultJobs -----------------------------
(* Model values of VaultJobs for TLC.                                        *)
EXTENDS VaultJobs, TLC

CONSTANTS note, other

NoteFile == <<"Daily Notes", "today.md">>
Vault    == <<"home", "vault">>
Folders  == {"Daily Notes", "Inbox"}
Linked   == {Vault \o <<"Inbox", "link">>}
LostLink == {Vault \o NoteFile}
InName   == "Inbox\\x.md" :> "Inbox"

\* A daily note, which is a link that leads nowhere, and an append to a path that leads
\* through a link that leads somewhere.
NoteAndLinked ==
    [j \in {note, other} |->
        IF j = note THEN NoteFile ELSE <<"Tasks", "..", "Inbox", "link", "x.md">>]
=============================================================================
