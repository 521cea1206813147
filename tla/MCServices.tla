------------------------------ MODULE MCServices ------------------------------
(***************************************************************************)
(* A TLC instance of the services that share no state with the task queue, *)
(* the sessions or each other.  A behaviour runs a workflow; when that was *)
(* the one without edges, one more service moves after it.  The sum of     *)
(* their states is explored, not the product.                              *)
(***************************************************************************)
EXTENDS WorkflowRunner, DeviceLogin, SocketGateway, PanelLogin, Portals,
        ClaudeSeed, NewProject, Wizard, Schedules, RepoAnalysis, StackPlugins

CONSTANTS n1, n2, n3, n4,                 \* nodes of the workflow
          p1, p2, a1, a2, d1,             \* polls, approvals, a denial
          tab, cli, page1, page2,         \* clients of the gateway, tabs of a browser
          o1, o2, k1, k2,                 \* organizations, providers
          b1, b2, b3, j1, c1, c2,          \* presses, a firing, plans
          github, host, good, bad,         \* services, keys
          r1, r2, i1, q1,                  \* repositories, an import, a click
          x1, e1, e2, e3, v1                  \* a server to pick, changes, a page

FourNodes    == {n1, n2, n3, n4}
OneTrigger   == {n1}
AllGraphs    == SUBSET {e \in FourNodes \X {n2, n3, n4} : e[1] # e[2]}
TwoPolls     == {p1, p2}
TwoApprovals == {a1, a2}
OneDenial    == {d1}
OneTab       == {tab}
OneCli       == {cli}
TwoPages     == {page1, page2}
TwoOrgs      == {o1, o2}
TwoProviders == {k1, k2}
ThreePresses == {b1, b2, b3}
OneFiring    == {j1}
TwoPlans     == {c1, c2}
TwoTools     == {github, host}
TwoKeys      == {good, bad}
OneGoodKey   == {good}
TwoRepos     == {r1, r2}
OneImport    == {i1}
OneClick     == {q1}
OnePick      == {x1}
ThreeChanges == {e1, e2, e3}
OneView      == {v1}

VARIABLE part  \* the service that moves

servicesVars == <<part, vars, loginVars, gatewayVars, panelVars, portalVars,
                  seedVars, projectVars, wizardVars, scheduleVars, repoVars, pluginVars>>

ServicesInit ==
  /\ part = "workflow"
  /\ Init /\ LoginInit /\ GatewayInit /\ PanelInit /\ PortalInit
  /\ SeedInit /\ ProjectInit /\ WizardInit /\ ScheduleInit /\ RepoInit /\ PluginInit

Rest(p) ==
  /\ part' = p
  /\ p # "workflow" => UNCHANGED vars
  /\ p # "login"    => UNCHANGED loginVars
  /\ p # "gateway"  => UNCHANGED gatewayVars
  /\ p # "panel"    => UNCHANGED panelVars
  /\ p # "portals"  => UNCHANGED portalVars
  /\ p # "seed"     => UNCHANGED seedVars
  /\ p # "project"  => UNCHANGED projectVars
  /\ p # "wizard"   => UNCHANGED wizardVars
  /\ p # "schedule" => UNCHANGED scheduleVars
  /\ p # "repos"    => UNCHANGED repoVars
  /\ p # "plugin"   => UNCHANGED pluginVars

HandOver ==
  /\ part = "workflow" /\ phase = "completed" /\ edges = {}
  /\ part' \in {"login", "gateway", "panel", "portals", "seed", "project", "wizard", "schedule",
                "repos", "plugin"}
  /\ UNCHANGED <<vars, loginVars, gatewayVars, panelVars, portalVars,
                 seedVars, projectVars, wizardVars, scheduleVars, repoVars, pluginVars>>

ServicesNext ==
  \/ part = "workflow" /\ Next /\ Rest("workflow")
  \/ part = "login" /\ LoginNext /\ Rest("login")
  \/ part = "gateway" /\ GatewayNext /\ Rest("gateway")
  \/ part = "panel" /\ PanelNext /\ Rest("panel")
  \/ part = "portals" /\ PortalNext /\ Rest("portals")
  \/ part = "seed" /\ SeedNext /\ Rest("seed")
  \/ part = "project" /\ ProjectNext /\ Rest("project")
  \/ part = "wizard" /\ WizardNext /\ Rest("wizard")
  \/ part = "schedule" /\ ScheduleNext /\ Rest("schedule")
  \/ part = "repos" /\ RepoNext /\ Rest("repos")
  \/ part = "plugin" /\ PluginNext /\ Rest("plugin")
  \/ HandOver

\* The fairness of FairSpec, FairGatewaySpec, FairSeedSpec, FairRepoSpec and
\* FairPluginSpec, each for the part it is about.
ServicesSpec ==
  /\ ServicesInit /\ [][ServicesNext]_servicesVars
  /\ WF_vars(part = "workflow" /\ Next)
  /\ WF_gatewayVars(part = "gateway" /\ Gateway(tab))
  /\ WF_gatewayVars(part = "gateway" /\ Gateway(cli))
  /\ WF_seedVars(part = "seed" /\ SyncStep(o1))
  /\ WF_seedVars(part = "seed" /\ SyncStep(o2))
  /\ WF_repoVars(part = "repos" /\ \E i \in Requests : RepoStep(i))
  /\ WF_pluginVars(part = "plugin" /\ \E c \in Changes : ChangeGoesOn(c))
  /\ WF_pluginVars(part = "plugin" /\ ViewGoesOn(v1))
  /\ WF_pluginVars(part = "plugin" /\ TimePasses)

\* Every variable stays within its type.
ServicesTypeOK ==
  /\ TypeOK /\ LoginTypeOK /\ GatewayTypeOK /\ PanelTypeOK /\ PortalTypeOK
  /\ SeedTypeOK /\ ProjectTypeOK /\ WizardTypeOK /\ ScheduleTypeOK /\ RepoTypeOK /\ PluginTypeOK
=============================================================================
