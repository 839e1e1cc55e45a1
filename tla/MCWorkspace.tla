---------------------------- MODULE MCWorkspace ------------------------------
(* Instances of Workspace.                                                  *)
EXTENDS Workspace
CONSTANTS t1, r1, r2, h1, h2, k1, k2, c1, c2
MCTunnel == {t1}
MCRecord == {r1, r2}
MCHost == {h1, h2}
MCKey == {k1, k2}
MCConn == {c1, c2}
Pair(a, b) == r1 :> a @@ r2 :> b
MCLayouts == {Pair("groups", "hosts"), Pair("identities", "snippets"), Pair("snippets", "tunnels"),
              Pair("tunnels", "snippets"), Pair("host-credentials", "snippets")}
MCBoth == {"patient", "hasty"}
MCProcesses == {{"tabs"}, {"tunnels"}, {"transfers"}, {"agents"}, {"web"}, {"pipes"}}
MCRecords == {{"records"}, {"keys"}, {"panes"}, {"assistant"}, {"editor"}, {"listing"}, {"settings"}}
=============================================================================
