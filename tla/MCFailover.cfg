SPECIFICATION LiveSpec
CONSTANTS
  Configs <- SomeConfigs
  Providers = {"etcd2", "stateboard"}
  Secrets = {"s1", "s2"}
  Foreign = {"s2"}
  Passwords = {p1, p2}
  NoSecret = NoSecret
  NoKey = NoKey
INVARIANTS
  FailoverInv
  RestMeansConfigured
PROPERTIES
  SecretEditsKept
  EventuallyConfigured
