------------------------------ MODULE MCPlugins ------------------------------
\* Plugins for TLC: two plugins that depend on docker, and one without dependencies.
EXTENDS Plugins

MCPluginSet == {"docker", "php", "appstore", "ai"}
MCDeps == [p \in MCPluginSet |-> IF p \in {"php", "appstore"} THEN {"docker"} ELSE {}]
=============================================================================
