\* Two volumes; of the other sections two things as well.
CONSTANTS Things = {x1, x2}
SPECIFICATION Spec
PROPERTIES SelectedVolumesOnly
CHECK_DEADLOCK FALSE
