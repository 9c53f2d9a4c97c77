------------------------------ MODULE MCNotify ------------------------------
(* Model values of Notify for TLC.                                           *)
EXTENDS Notify

CONSTANTS push, c1

AllChannels == {push, "silent"}

Entries ==
    [channel : Channels, priority : 0..1, minSeverity : {0, Error}]

Windows == [from : Minutes, to : Minutes] \union {None}

\* Up to two channels, any quiet hours, or no document.
AnyDocument ==
    {[channels |-> list, quiet |-> w] : list \in {<<>>} \union {<<e>> : e \in Entries}
        \union {<<e, f>> : e, f \in Entries}, w \in Windows} \union {None}

Entry(channel) == [channel |-> channel, priority |-> 0, minSeverity |-> 0]

NoneOrPush == {[channels |-> list, quiet |-> None] : list \in {<<>>, <<Entry(push)>>}}

Addresses == Channels \union {None}
=============================================================================
