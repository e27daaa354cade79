---------------------------- MODULE MCSSHServer ----------------------------
EXTENDS SSHServer

CONSTANTS c1, c2, k1, k2

MCConns == {c1, c2}
MCKeys == {k1, k2}

\* Ranges at both ends, one given backwards, one next to the SSH port.
MCItems == {All, Unknown, PortRange(0, 1), PortRange(4, 2),
            PortRange(4, 4), PortRange(6, 7)}
           \cup {Service(s) : s \in Services}
MCSpecs == {{a, b} : a, b \in MCItems} \cup {{}}
MCSources == {<<>>, <<Source(TRUE, {k1}, FALSE)>>, <<Source(TRUE, {}, FALSE)>>,
              <<Source(TRUE, {k1}, FALSE), Source(TRUE, {k1}, TRUE)>>}
MCConfigs == {Config(spec, exec, files, sources) :
                spec \in MCSpecs, exec \in {"none", "empty", "missing", "command"},
                files \in {"none", "bad", "WO"}, sources \in MCSources}
=============================================================================
