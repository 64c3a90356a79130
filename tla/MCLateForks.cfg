SPECIFICATION LateSpec
CONSTANTS
    alice = alice
    bob = bob
    Topics = {alice, bob}
    None = none
    MaxFailures = 2
    MaxForks = 2
    MaxRegisters = 2
INVARIANTS LateForksListen SubscriptionsAgree
PROPERTIES EventuallySubscribed SilenceDetected
