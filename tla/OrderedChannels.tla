---------------------------- MODULE OrderedChannels ----------------------------
(***************************************************************************)
(* What a connection promises whoever uses it, without worker pool, codec  *)
(* or queue: per direction the packets are numbered as they are accepted   *)
(* and come out in that order, none is missing between two that came out,  *)
(* and nothing comes out of a closed connection.                           *)
(***************************************************************************)
EXTENDS Naturals, Sequences

CONSTANT Conns

VARIABLES
    open,      \* connections whose socket is not destroyed
    accepted,  \* per connection and way, how many packets were accepted
    delivered  \* per connection and way, the packets that came out

channelVars == <<open, accepted, delivered>>

Ways == {"in", "out"}

ChannelsInit ==
    /\ open = Conns
    /\ accepted = [c \in Conns |-> [w \in Ways |-> 0]]
    /\ delivered = [c \in Conns |-> [w \in Ways |-> <<>>]]

(* Packets are accepted; one too many closes the connection at once.       *)
Accept(c, w) ==
    /\ c \in open
    /\ accepted'[c][w] >= accepted[c][w]
    /\ accepted' = [accepted EXCEPT ![c][w] = accepted'[c][w]]
    /\ open' \in {open, open \ {c}}
    /\ UNCHANGED delivered

(* The next packet comes out.                                              *)
Deliver(c, w) ==
    /\ c \in open
    /\ Len(delivered[c][w]) < accepted[c][w]
    /\ delivered' = [delivered EXCEPT ![c][w] = Append(@, Len(@) + 1)]
    /\ UNCHANGED <<open, accepted>>

Close(c) ==
    /\ c \in open
    /\ open' = open \ {c}
    /\ UNCHANGED <<accepted, delivered>>

ChannelsNext ==
    \E c \in Conns :
        \/ \E w \in Ways : Accept(c, w) \/ Deliver(c, w)
        \/ Close(c)

ChannelsSpec == ChannelsInit /\ [][ChannelsNext]_channelVars
================================================================================
