----------------------------- MODULE MCForward -----------------------------
EXTENDS Forward

\* Runs may bind the port everywhere, or neither on the host nor in one container.
SomeRefused == {{}, {Host, CHOOSE b \in Bridges : TRUE} \X {8080}}
=============================================================================
