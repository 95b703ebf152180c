\* One official image with two versions, one custom image, one instance, one
\* build, one failing step and one restart.
SPECIFICATION ImagesFairSpec
CONSTANTS
    Images = {"alpine", "mine"}
    Official = {"alpine"}
    vm = vm
    Vms = {vm}
    Choices = {{"alpine"}, {"mine"}}
    MaxPublished = 2
    MaxBuilds = 1
    MaxOps = 1
    MaxFailures = 1
INVARIANTS
    LowerExists
    
PROPERTIES
    OfficialServed
    UnusedRemoved
