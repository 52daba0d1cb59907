---------------------------- MODULE Capabilities ----------------------------
(* The four tables of the Go SDK that must name the same capabilities: the  *)
(* protocol's catalogue, the switch that says whether a handler set serves  *)
(* a capability, the switch that dispatches to the handler, and the         *)
(* client's codecs.  Each is read off its own source.                       *)

\* protocol/capability.go: validDeliveryClass; "none" is the class of a query.
DeliveryClasses == {"provider_idempotent", "state_reconciled", "at_most_once"}

Group(role, class, names) ==
    {[name |-> n, role |-> role, mutating |-> class # "none", class |-> class] : n \in names}

\* protocol/capability.go: capabilityCatalog, by role and delivery class.
CapabilityCatalog ==
    UNION {
     Group("provider", "none",
          {"provider.capabilities", "provider.health", "provider.initialize", "events.subscribe",
           "command.get_result"}),
     Group("provider", "provider_idempotent",
          {"provider.shutdown", "events.unsubscribe"}),
     Group("execution-environment", "none",
          {"environment.health", "environment.inspect"}),
     Group("execution-environment", "state_reconciled",
          {"environment.mount", "environment.provision"}),
     Group("execution-environment", "provider_idempotent",
          {"environment.shutdown"}),
     Group("session-runtime", "none",
          {"runtime.list_sessions", "runtime.get_session", "runtime.snapshot", "terminal.read",
           "terminal.subscribe", "workspace.list", "workspace.get", "topology.get", "topology.subscribe",
           "pane.list", "pane.get"}),
     Group("session-runtime", "state_reconciled",
          {"runtime.create_session", "runtime.attach", "runtime.restore", "runtime.adopt", "runtime.resume",
           "runtime.clone", "runtime.fork", "runtime.migrate", "runtime.import", "terminal.resize",
           "terminal.attach", "workspace.create", "pane.create", "pane.split", "pane.focus", "pane.resize"}),
     Group("session-runtime", "provider_idempotent",
          {"runtime.stop_session", "runtime.detach", "runtime.checkpoint", "runtime.export",
           "runtime.archive", "terminal.detach", "workspace.close", "pane.close"}),
     Group("session-runtime", "at_most_once",
          {"runtime.terminate_session", "terminal.send_input", "terminal.send_keys"}),
     Group("agent-harness", "none",
          {"harness.list", "harness.inspect", "agent.get_state", "agent.get_usage",
           "agent.get_pending_approvals", "agent.get_tools", "agent.get_native_identity", "context.confirm",
           "approval.list", "artifact.list"}),
     Group("agent-harness", "at_most_once",
          {"harness.launch", "harness.resume", "agent.send_message", "agent.interrupt", "agent.cancel",
           "context.deliver", "approval.approve", "approval.reject", "approval.expire"}),
     Group("agent-harness", "provider_idempotent",
          {"harness.stop", "artifact.register"})}

CatalogQueries == {c.name : c \in {x \in CapabilityCatalog : ~x.mutating}}
CatalogMutations == {c.name : c \in {x \in CapabilityCatalog : x.mutating}}
Catalog == CatalogQueries \cup CatalogMutations

\* Capability looks a name up in the catalogue; what is not there is an extension.
Known(name) == name \in Catalog

\* provider/handler.go: the cases of HandlerSet.supports.
SupportCases ==
    {"provider.initialize", "provider.capabilities", "command.get_result", "provider.health",
     "provider.shutdown", "events.subscribe", "events.unsubscribe", "environment.inspect",
     "environment.health", "environment.provision", "environment.mount", "environment.shutdown",
     "runtime.list_sessions", "runtime.get_session", "runtime.create_session", "runtime.stop_session",
     "runtime.terminate_session", "runtime.attach", "runtime.detach", "runtime.snapshot",
     "runtime.checkpoint", "runtime.restore", "runtime.adopt", "runtime.resume", "runtime.clone",
     "runtime.fork", "runtime.migrate", "runtime.export", "runtime.import", "runtime.archive",
     "terminal.read", "terminal.subscribe", "terminal.send_input", "terminal.send_keys", "terminal.resize",
     "terminal.attach", "terminal.detach", "workspace.list", "workspace.get", "workspace.create",
     "workspace.close", "topology.get", "topology.subscribe", "pane.list", "pane.get", "pane.create",
     "pane.split", "pane.focus", "pane.resize", "pane.close", "harness.list", "harness.inspect",
     "harness.launch", "harness.resume", "harness.stop", "agent.send_message", "agent.interrupt",
     "agent.cancel", "agent.get_state", "agent.get_usage", "agent.get_pending_approvals", "agent.get_tools",
     "agent.get_native_identity", "context.deliver", "context.confirm", "approval.list", "approval.approve",
     "approval.reject", "approval.expire", "artifact.list", "artifact.register"}

\* provider/handler.go: the cases of HandlerSet.dispatch that call invokeMutation.
DispatchMutations ==
    {"provider.shutdown", "events.unsubscribe", "environment.provision", "environment.mount",
     "environment.shutdown", "runtime.create_session", "runtime.stop_session", "runtime.terminate_session",
     "runtime.attach", "runtime.detach", "runtime.checkpoint", "runtime.restore", "runtime.adopt",
     "runtime.resume", "runtime.clone", "runtime.fork", "runtime.migrate", "runtime.export",
     "runtime.import", "runtime.archive", "terminal.send_input", "terminal.send_keys", "terminal.resize",
     "terminal.attach", "terminal.detach", "workspace.create", "workspace.close", "pane.create",
     "pane.split", "pane.focus", "pane.resize", "pane.close", "harness.launch", "harness.resume",
     "harness.stop", "agent.send_message", "agent.interrupt", "agent.cancel", "context.deliver",
     "approval.approve", "approval.reject", "approval.expire", "artifact.register"}

\* provider/handler.go: the cases of HandlerSet.dispatch that call invokeQuery.
DispatchQueries ==
    {"provider.initialize", "provider.health", "provider.capabilities", "events.subscribe",
     "command.get_result", "environment.inspect", "environment.health", "runtime.list_sessions",
     "runtime.get_session", "runtime.snapshot", "terminal.read", "terminal.subscribe", "workspace.list",
     "workspace.get", "topology.get", "topology.subscribe", "pane.list", "pane.get", "harness.list",
     "harness.inspect", "agent.get_state", "agent.get_usage", "agent.get_pending_approvals",
     "agent.get_tools", "agent.get_native_identity", "context.confirm", "approval.list", "artifact.list"}

\* provider/client.go: clientCapabilityCodecs.
ClientCodecs ==
    {"provider.initialize", "provider.health", "provider.capabilities", "provider.shutdown",
     "events.subscribe", "events.unsubscribe", "command.get_result", "environment.inspect",
     "environment.health", "environment.provision", "environment.mount", "environment.shutdown",
     "runtime.list_sessions", "runtime.get_session", "runtime.create_session", "runtime.stop_session",
     "runtime.terminate_session", "runtime.attach", "runtime.detach", "runtime.snapshot",
     "runtime.checkpoint", "runtime.restore", "runtime.adopt", "runtime.resume", "runtime.clone",
     "runtime.fork", "runtime.migrate", "runtime.export", "runtime.import", "runtime.archive",
     "terminal.read", "terminal.subscribe", "terminal.send_input", "terminal.send_keys", "terminal.resize",
     "terminal.attach", "terminal.detach", "workspace.list", "workspace.get", "workspace.create",
     "workspace.close", "topology.get", "topology.subscribe", "pane.list", "pane.get", "pane.create",
     "pane.split", "pane.focus", "pane.resize", "pane.close", "harness.list", "harness.inspect",
     "harness.launch", "harness.resume", "harness.stop", "agent.send_message", "agent.interrupt",
     "agent.cancel", "agent.get_state", "agent.get_usage", "agent.get_pending_approvals", "agent.get_tools",
     "agent.get_native_identity", "context.deliver", "context.confirm", "approval.list", "approval.approve",
     "approval.reject", "approval.expire", "artifact.list", "artifact.register"}
=============================================================================
