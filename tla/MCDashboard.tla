---------------------------- MODULE MCDashboard ----------------------------
(* Two dashboards, and a configuration of two fields that the panel edits:   *)
(* the switch, and one limit, whose input may be cleared.                    *)
EXTENDS Dashboard

CONSTANTS d1, d2

MCClients == {d1, d2}
MCValues == [autoTrade |-> {"on", "off"}, minProfitUsd |-> {"1", "cleared"}]
=============================================================================
