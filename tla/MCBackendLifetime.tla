-------------------------- MODULE MCBackendLifetime --------------------------
\* Two product threads, so that starts race, and two workers, so that one may be there
\* when the next cannot be created.
EXTENDS BackendLifetime

CONSTANTS host, other, reader, waiter, none
MCProducts == {host, other}
MCWorkers == {reader, waiter}

\* One thread only: whoever destroys the backend does it from inside its own call.
OneProduct == {host}
=============================================================================
