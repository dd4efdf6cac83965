------------------------------ MODULE MCService ------------------------------
(***************************************************************************)
(* What runs beside the requests and decides who may use the service.  Two *)
(* servers send mails (mail); one tab enters, signs in and out with lost   *)
(* answers (entry), or is left alone by faults (alone); an hourly and a    *)
(* forced backup take turns (backups).                                     *)
(*                                                                         *)
(* They share no state, so one of them, the scope, moves in a behaviour    *)
(* and the others rest.                                                    *)
(***************************************************************************)
EXTENDS Mail, Backups, Entry, TLC

CONSTANT account

VARIABLE scope

RankDef == [i \in Ids |-> i]

Alone == INSTANCE Entry WITH Accounts <- {account}, MaxLost <- 0, MaxLapses <- 0

-----------------------------------------------------------------------------
MCInit ==
    /\ scope \in {"mail", "entry", "alone", "backups"}
    /\ Init /\ EntryInit /\ BackupsInit

MCNext ==
    /\ \/ scope = "mail" /\ Next /\ UNCHANGED <<entryVars, backupVars>>
       \/ scope = "entry" /\ EntryNext /\ UNCHANGED <<vars, backupVars>>
       \/ scope = "alone" /\ Alone!EntryNext /\ UNCHANGED <<vars, backupVars>>
       \/ scope = "backups" /\ BackupsNext /\ UNCHANGED <<vars, entryVars>>
    /\ UNCHANGED scope

MCSpec == MCInit /\ [][MCNext]_<<scope, vars, entryVars, backupVars>>

-----------------------------------------------------------------------------
\* While one tab is used: a guest is entered anew only when nothing is left of the one before, and, if no
\* answer is lost, signing in leaves no work behind (src/services/entry.ts:6-23, replica.ts:197-218).
GuestsKept == NoEmptyGuest /\ [](scope = "alone" => Alone!EntryTypeOK /\ WorkComes)

=============================================================================
