------------------------------- MODULE MCHost -------------------------------
(***************************************************************************)
(* What happens to a host around the server, for TLC: its database is       *)
(* opened by builds of several versions, its certificate renewed, the       *)
(* service installed, the configuration found, and the days pass.  These    *)
(* share no state, so a behaviour is that of one of them.  Of the command   *)
(* and the renewals no more than two issue a key (issued).                  *)
(***************************************************************************)
EXTENDS Schema, TlsReload, ServiceInstall, Places, Calendar

VARIABLE part   \* the one that moves

\* The builds of versions 1, 2 and 3, and a second process of version 3.
MCLatest == [p \in Processes |-> CASE p = "v1" -> 1 [] p = "v2" -> 2 [] OTHER -> 3]

HostInit ==
    /\ part \in {"schema", "tls", "service", "places", "calendar"}
    /\ SchemaInit /\ TlsInit /\ ServiceInit /\ PlacesInit /\ CalendarInit
    /\ part # "places" => env = [u \in Users |-> [variable |-> FALSE, xdg |-> FALSE, home |-> TRUE]]

HostNext ==
    /\ UNCHANGED part
    /\ \/ part = "schema" /\ SchemaNext /\ UNCHANGED <<tls, installation, places, calendar>>
       \/ part = "tls" /\ TlsNext /\ issued' =< Renewals /\ UNCHANGED <<schema, installation, places, calendar>>
       \/ part = "service" /\ ServiceNext /\ UNCHANGED <<schema, tls, places, calendar>>
       \/ part = "places" /\ PlacesNext /\ UNCHANGED <<schema, tls, installation, calendar>>
       \/ part = "calendar" /\ Tomorrow /\ UNCHANGED <<schema, tls, installation, places>>

HostSpec == HostInit /\ [][HostNext]_<<part, schema, tls, installation, places, calendar>>

=============================================================================
