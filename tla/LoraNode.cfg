\* One device, all roles, neighbours that never stop sending.
SPECIFICATION Spec
INVARIANTS TypeOK RestsListening
PROPERTIES SendsAreTrue ReadIsHeard OwnPacketsLeave
