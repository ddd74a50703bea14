----------------------------- MODULE PanelFiles -----------------------------
(***************************************************************************)
(* The inbound relay and the settings of sending domains in one panel: the *)
(* requests of both are served at once, one of them (HandleReload) rebuilds *)
(* the files of both, and a kill of the panel ends the requests of both and *)
(* is followed by a start that rebuilds the DMARC maps and then writes the *)
(* filter's lists.                                                         *)
(***************************************************************************)
EXTENDS InboundRelay, DomainSettings

CONSTANT Budgets   \* bound: how many of everything a behaviour sees

VARIABLE budget

panelVars == <<vars, settings, budget>>

\* The part of HandleReload after the lists: a rebuild of the DMARC maps, by
\* the same request.
ReloadGoesOn(r) ==
    /\ req[r].op = "reload" /\ AllWritten(r)
    /\ \E j \in Jobs : ResyncDMARC(j, "resync")

\* A start writes the lists when it has rebuilt the DMARC maps.
Relay(r) ==
    /\ Up \/ req[r].op # "start"
    /\ req[r].pc = "file" /\ req[r].op = "reload" => req[r].todo # {}
    /\ Step(r)

ListsStarted == \A r \in Reqs : req[r].op # "start"

Within ==
    /\ \A j \in Jobs : job'[j].op \in budget.jobs \cup {"none", "resync", "start"}
    /\ made' <= budget.made /\ asked' <= budget.asked
    /\ arrived' <= budget.arrived /\ faults' + failures' <= budget.failures

PanelInit ==
    /\ Init /\ SettingsInit /\ budget \in Budgets
    /\ budget.asked = 0 => issued = 0

PanelKilled ==
    /\ Busy \/ \E j \in Jobs : job[j] # NoJob
    /\ Killed /\ SettingsKilled /\ UNCHANGED failures

PanelNext ==
    /\ \/ \E r \in Reqs : ((Up /\ Asked(r)) \/ Relay(r)) /\ UNCHANGED settings
       \/ \E r \in Reqs : ReloadGoesOn(r)
       \/ (\E j \in Jobs : (ListsStarted /\ JobAsked(j)) \/ JobStep(j)) /\ UNCHANGED vars
       \/ IngestStep /\ UNCHANGED vars
       \/ PanelKilled
    /\ Within /\ UNCHANGED budget

PanelSpec == PanelInit /\ [][PanelNext]_panelVars
=============================================================================
