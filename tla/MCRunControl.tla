----------------------------- MODULE MCRunControl -----------------------------
EXTENDS RunControl

AllTools == {"read_memory", "read_register", "probe", "halt", "resume", "write_register",
             "write_memory", "reset_run", "reset_from_rom", "info"}
BothPrograms == {<<TRUE, TRUE>>, <<FALSE, FALSE>>}
===============================================================================
