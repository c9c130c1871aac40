---------------------------- MODULE OrderedChannels ----------------------------
(***************************************************************************)
(* What a backhaul promises to its flows.  Each flow is a channel of its   *)
(* own; SDUs are numbered in the order in which they are handed over, so   *)
(* the oldest of a channel has the least number.  An SDU that is accepted  *)
(* is delivered once, after those of its channel accepted before it, or,   *)
(* when the channels are lossy, it vanishes.  A failure ends everything    *)
(* and takes at most the SDU being handed over with it.  Neither hops nor  *)
(* routes, headers or bearers appear here.                                 *)
(***************************************************************************)
EXTENDS Naturals, Sequences

CONSTANTS
  Channel,    \* records with a field dst, the device a channel leads to
  Device,
  MaxSdus     \* bound: the SDUs that are handed over in all

VARIABLES
  lossy,      \* whether SDUs may be lost
  sdus,       \* the number of SDUs handed over so far
  inFlight,   \* of each channel, the SDUs accepted and not yet delivered
  received,   \* what each device was delivered, in the order of delivery
  failed      \* whether the program has ended with an error

channelsVars == <<lossy, sdus, inFlight, received, failed>>

Init ==
  /\ lossy \in BOOLEAN
  /\ sdus = 0
  /\ inFlight = [channel \in Channel |-> {}]
  /\ received = [dev \in Device |-> <<>>]
  /\ failed = FALSE

Accept(channel) ==
  /\ ~failed
  /\ sdus < MaxSdus
  /\ sdus' = sdus + 1
  /\ inFlight' = [inFlight EXCEPT ![channel] = @ \cup {sdus + 1}]
  /\ UNCHANGED <<lossy, received, failed>>

Deliver(channel) ==
  /\ ~failed
  /\ \E id \in inFlight[channel] :
       /\ \A other \in inFlight[channel] : id <= other
       /\ inFlight' = [inFlight EXCEPT ![channel] = @ \ {id}]
       /\ received' = [received EXCEPT
            ![channel.dst] = Append(@, [flow |-> channel, id |-> id])]
  /\ UNCHANGED <<lossy, sdus, failed>>

Lose(channel) ==
  /\ ~failed
  /\ lossy
  /\ \E id \in inFlight[channel] :
       inFlight' = [inFlight EXCEPT ![channel] = @ \ {id}]
  /\ UNCHANGED <<lossy, sdus, received, failed>>

Fail ==
  /\ ~failed
  /\ failed' = TRUE
  /\ \/ UNCHANGED sdus
     \/ sdus < MaxSdus /\ sdus' = sdus + 1
  /\ UNCHANGED <<lossy, inFlight, received>>

Next ==
  \/ \E channel \in Channel : Accept(channel) \/ Deliver(channel) \/ Lose(channel)
  \/ Fail

Spec == Init /\ [][Next]_channelsVars
================================================================================
