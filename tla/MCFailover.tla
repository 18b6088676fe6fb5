----------------------------- MODULE MCFailover ------------------------------
EXTENDS Failover

Config(mode, provider, secret, fencing) ==
  [mode |-> mode, provider |-> provider, secret |-> secret, fencing |-> fencing]

\* The failover is switched on, its provider changed, the password moved to
\* another namespace, and dropped, with fencing.
SomeConfigs == {Config("eventual", "etcd2", NoSecret, TRUE),
                Config("stateful", "etcd2", "s1", FALSE),
                Config("stateful", "etcd2", "s2", FALSE),
                Config("stateful", "stateboard", NoSecret, FALSE)}
=============================================================================
